---- MODULE Spec2Model ----
(***************************************************************************)
(* Context Workspaces (obsidian-context-workspaces): the settings store    *)
(* (spaces, spaceOrder, currentSpaceId, workspaceLastSeen), the host       *)
(* workspace registry of the Workspaces core plugin, and the operations    *)
(* that keep the two in agreement: bidirectional sync, deletion detection, *)
(* handleWorkspaceChange, createNewSpace, deleteSpace and switchToSpace.   *)
(* Asynchronous operations are split at the awaits that really suspend     *)
(* (saveSettings, saveData, loadWorkspace); everything between two such    *)
(* awaits is one atomic step of the single-threaded event loop.            *)
(***************************************************************************)
EXTENDS Integers, Sequences, FiniteSets, TLC

\* ------------------------------------------------------------------------
\* Bounds of the model
\* ------------------------------------------------------------------------

\* Largest value of the clock, in ticks of TickMs after StartMs.
MaxTicks == 2

\* Number of workspaces the host registry holds when the plugin is loaded.
MaxInitialWorkspaces == 1

\* Number of operations started: calls of the plugin's entry points and
\* native changes the user makes to the host registry.
MaxOps == 3

\* ------------------------------------------------------------------------
\* Program constants
\* ------------------------------------------------------------------------

\* Grace window of the false-positive guard, in milliseconds.
GraceMs == 5000

\* ------------------------------------------------------------------------
\* Universe of values
\* ------------------------------------------------------------------------

Null == "null"
Undefined == "undefined"

\* Workspace / space identifiers that occur in the model.
Ids == {"default", "space", "space-1"}

\* Display names the user gives to a space or to a native workspace.
Names == {"Space", "My Space"}

\* Names the user types into the create dialog.
CreateNames == {"Space"}

\* Clock: Date.now() advances in steps of TickMs from StartMs.
StartMs == 2500
TickMs == 2500
MaxNow == StartMs + MaxTicks * TickMs

EmptyMap == [x \in {} |-> Null]

ToSet(s) == {s[i] : i \in 1..Len(s)}

Includes(s, x) == \E i \in 1..Len(s) : s[i] = x

\* Array.prototype.filter((id) => id !== x)
FilterOut(s, x) == SelectSeq(s, LAMBDA y : y # x)

\* Array.prototype.indexOf followed by splice(index, 1): removes the first
\* occurrence only.
RemoveFirst(s, x) ==
    IF ~Includes(s, x) THEN s
    ELSE LET i == CHOOSE k \in 1..Len(s) :
                      s[k] = x /\ \A j \in 1..(k - 1) : s[j] # x
         IN SubSeq(s, 1, i - 1) \o SubSeq(s, i + 1, Len(s))

NoDuplicates(s) == \A i, j \in 1..Len(s) : i # j => s[i] # s[j]

\* All enumeration orders of a key set (Object.keys / Object.entries order
\* is the insertion order of the object, which the model does not track).
Orderings(S) ==
    {s \in [1..Cardinality(S) -> S] : \A i, j \in 1..Cardinality(S) : i # j => s[i] # s[j]}

RemoveKey(f, k) == [x \in DOMAIN f \ {k} |-> f[x]]

RemoveKeys(f, K) == [x \in DOMAIN f \ K |-> f[x]]

SetKey(f, k, v) == [x \in DOMAIN f \cup {k} |-> IF x = k THEN v ELSE f[x]]

\* ------------------------------------------------------------------------
\* State
\* ------------------------------------------------------------------------

VARIABLES
    spaces,              \* settings.spaces: id -> SpaceConfig
    spaceOrder,          \* settings.spaceOrder
    currentSpaceId,      \* settings.currentSpaceId
    workspaceLastSeen,   \* settings.workspaceLastSeen: id -> epoch millis
    workspaces,          \* host registry instance.workspaces: id -> name
    enabled,             \* host: Workspaces core plugin enabled
    now,                 \* Date.now()
    ops,                 \* operations started so far
    loaded,              \* onload has run initializeDefaultSpace
    syncInProgress,      \* sync-utils.ts: module flag of safeBidirectionalSync
    syncCur,             \* identifier whose createObsidianWorkspace awaits saveData
    syncTodo,            \* identifiers the second loop of the sync still has to visit
    result,              \* SyncResult of the running / last performBidirectionalSync
    obsidianWorkspaceNames, \* <<snapshot>> read by that call, <<>> before the first call
    switchingToSpaceId,  \* plugin.switchingToSpaceId
    switchPc,            \* the await at which switchToSpace is suspended
    deletePc,            \* the await at which deleteSpace is suspended
    deleteId,            \* its spaceId argument
    createPc,            \* the await at which createNewSpace is suspended
    createId,            \* its spaceId
    createName,          \* its name
    notice,              \* text of the last Notice shown by deleteSpace
    switchCalls,         \* calls of switchToSpace(target) since the running switch began
    commits,             \* assignments of currentSpaceId by the running switch
    loads,               \* loadWorkspace calls started by the running switch
    syncRepeat,          \* the running sync read the same snapshot as the one before it
    syncReturn,          \* "result" / Null: what the last call of safeBidirectionalSync that
                         \* returned gave back; "none" before
    deletionDetectionInProgress, \* deletion-detection-utils.ts: module flag
    switchLog,           \* effects of the running switch, in the order they happened
    themeError,          \* a theme call of the running / last switch threw
    themeChanged,        \* the theme step of the running / last switch changed theme or mode
    themeRestore,        \* restoreThemeState in the theme step: "none", "returned" or "threw"
    loadError,           \* loadWorkspace of the running / last switch threw
    hostTheme,           \* host: getCurrentTheme()
    hostThemeMode,       \* host: getCurrentThemeMode()
    originalObsidianTheme,     \* obsidian-utils.ts: backed-up theme, Null before the backup
    originalObsidianThemeMode, \* obsidian-utils.ts: backed-up theme mode
    navTarget,           \* identifier the last navigation helper passed to switchToSpace
    layoutTimers,        \* pending timers set by handleLayoutChange (layoutChangeTimeout)
    savedId,             \* identifier the last run of the layout timer or of onunload
                         \* passed to instance.saveWorkspace, Null when it passed none
    burst,               \* layout-change notifications that set or reset the timer
                         \* which is pending or fired last
    monitoring,          \* instance.loadWorkspace is wrapped by setupWorkspaceLoadMonitoring
    autoSwitchTimers,    \* identifiers of the pending 100 ms timers of the load monitor
    persisted            \* the settings document: spaces, spaceOrder and currentSpaceId
                         \* as loadSettings read them or the last saveSettings wrote them

syncVars == <<syncInProgress, syncCur, syncTodo, result, obsidianWorkspaceNames, syncRepeat,
              syncReturn>>
switchVars == <<switchingToSpaceId, switchPc, switchCalls, commits, loads, switchLog, themeError,
                themeChanged, themeRestore, loadError>>
themeVars == <<hostTheme, hostThemeMode, originalObsidianTheme, originalObsidianThemeMode>>
detectVars == <<deletionDetectionInProgress, persisted>>
navVars == <<navTarget>>
layoutVars == <<layoutTimers, savedId, burst>>
monitorVars == <<monitoring, autoSwitchTimers>>
deleteVars == <<deletePc, deleteId>>
createVars == <<createPc, createId, createName>>

vars == <<spaces, spaceOrder, currentSpaceId, workspaceLastSeen,
          workspaces, enabled, now, ops, loaded, syncVars,
          switchVars, deleteVars, createVars, notice, themeVars, detectVars, navVars, layoutVars, monitorVars>>

\* The part of the settings document that saveSettings (main.ts 163-165)
\* writes and the properties look at.
Persist(sp, order, cur) == [spaces |-> sp, spaceOrder |-> order, currentSpaceId |-> cur]

storeVars == <<spaces, spaceOrder, currentSpaceId, workspaceLastSeen>>
hostVars == <<workspaces, enabled>>

\* An imported space with auto-save switched on.
ImportedSpaceAutoSave(name) ==
    [name |-> name, icon |-> "page", autoSave |-> TRUE,
     theme |-> Undefined, themeMode |-> Undefined, description |-> Undefined]

\* SpaceConfig of a space imported from the host registry.
ImportedSpace(name) ==
    [name |-> name, icon |-> "page", autoSave |-> FALSE,
     theme |-> Undefined, themeMode |-> Undefined, description |-> Undefined]

\* ------------------------------------------------------------------------
\* Host gateway (obsidian-utils.ts)
\* ------------------------------------------------------------------------

\* An entry of the registry that is null makes the read of its name throw a
\* TypeError (obsidian-utils.ts 172-173).
RegistryReadThrows == \E id \in DOMAIN workspaces : workspaces[id] = Null

\* A read that skips the entries it cannot read and keeps the others.
getObsidianWorkspaceNamesPartial ==
    IF enabled
    THEN [id \in {i \in DOMAIN workspaces : workspaces[i] # Null} |->
            IF workspaces[id] = "" THEN id ELSE workspaces[id]]
    ELSE EmptyMap

\* getObsidianWorkspaceNames: id -> (name || id), {} when the Workspaces
\* plugin is disabled, and {} from the catch when the read throws.
getObsidianWorkspaceNames ==
    IF enabled /\ ~RegistryReadThrows
    THEN [id \in DOMAIN workspaces |-> IF workspaces[id] = "" THEN id ELSE workspaces[id]]
    ELSE EmptyMap

\* Truthiness of obsidianWorkspaceNames[id].
InSnapshot(snap, id) == id \in DOMAIN snap /\ snap[id] # ""

\* getWorkspacesPlugin(app)?.instance?.workspaces?.[id], the re-query of the
\* registry: it does not look at `enabled`.
Requery(id) == id \in DOMAIN workspaces /\ workspaces[id] # Null

\* ------------------------------------------------------------------------
\* Deletion detection (deletion-detection-utils.ts)
\* ------------------------------------------------------------------------

\* A detection that reports every space but 'default', whatever the
\* snapshot holds.
detectAndHandleWorkspaceDeletionsAll(sp, snap) ==
    {id \in DOMAIN sp : id # "default" /\ snap = snap}

\* detectAndHandleWorkspaceDeletions: result.deletedWorkspaces, as a set (the
\* loop visits every key of settings.spaces once).
detectAndHandleWorkspaceDeletions(sp, snap) ==
    {id \in DOMAIN sp : id # "default" /\ ~InSnapshot(snap, id)}

\* indexOf + splice(orderIndex, 1) for every identifier of a list of
\* distinct identifiers.
RECURSIVE SpliceAll(_, _)
SpliceAll(order, deleted) ==
    IF deleted = {} THEN order
    ELSE LET id == CHOOSE x \in deleted : TRUE
         IN SpliceAll(RemoveFirst(order, id), deleted \ {id})

\* removeDeletedWorkspaces without the splice of settings.spaceOrder.
removeDeletedWorkspacesKeepOrder(sp, order, deleted) ==
    [spaces |-> RemoveKeys(sp, deleted), spaceOrder |-> order]

\* removeDeletedWorkspaces: deletes from settings.spaces and settings.spaceOrder.
removeDeletedWorkspaces(sp, order, deleted) ==
    [spaces |-> RemoveKeys(sp, deleted), spaceOrder |-> SpliceAll(order, deleted)]

\* switchToFirstWorkspace: the new settings.currentSpaceId.
switchToFirstWorkspace(order, cur) ==
    IF Len(order) > 0 /\ order[1] # "" /\ cur # order[1] THEN order[1] ELSE cur

\* needsDeletionDetection
needsDeletionDetection ==
    \E id \in DOMAIN spaces : ~InSnapshot(getObsidianWorkspaceNames, id)

\* ------------------------------------------------------------------------
\* handleWorkspaceChange (main.ts 571-743): helpers
\* ------------------------------------------------------------------------

\* settings.workspaceLastSeen?.[id]; undefined and 0 are both falsy.
LastSeenOf(seen, id) == IF id \in DOMAIN seen THEN seen[id] ELSE 0

\* !workspaceLastSeen || (now - workspaceLastSeen) < 5000
NeedsRecheck(seen, id, t) == LastSeenOf(seen, id) = 0 \/ (t - LastSeenOf(seen, id)) < GraceMs

\* Step 2 of handleWorkspaceChange: the identifiers pushed to
\* deletedWorkspaces.
ChangeDeleted(sp, snap, seen, t) ==
    {id \in DOMAIN sp :
        /\ ~InSnapshot(snap, id)
        /\ ~(NeedsRecheck(seen, id, t) /\ Requery(id))}

\* Step 2, else branch: workspaceLastSeen[spaceId] = Date.now() for the
\* spaces found in the snapshot.
ChangeSeen(sp, snap, seen, t) ==
    LET present == {id \in DOMAIN sp : InSnapshot(snap, id)}
    IN [id \in DOMAIN seen \cup present |-> IF id \in present THEN t ELSE seen[id]]

\* Step 4: identifiers of the snapshot without a space; 'default' is skipped.
ChangeNew(sp, snap) ==
    {id \in DOMAIN snap : id \notin DOMAIN sp /\ id # "default"}

\* spaceOrder.push(id) guarded by !spaceOrder.includes(id), for a list of ids.
RECURSIVE PushAll(_, _)
PushAll(order, ids) ==
    IF ids = <<>> THEN order
    ELSE PushAll(IF Includes(order, Head(ids)) THEN order ELSE Append(order, Head(ids)),
                 Tail(ids))

\* ------------------------------------------------------------------------
\* Bidirectional sync (sync-utils.ts)
\* ------------------------------------------------------------------------

EmptyResult ==
    [importedFromObsidian |-> <<>>, createdInObsidian |-> <<>>,
     conflicts |-> <<>>, errors |-> <<>>]

\* An import that assigns spaceOrder instead of pushing to it.
SyncImportEntryResetOrder(st, id, name) ==
    [spaces |-> SetKey(st.spaces, id, ImportedSpace(name)),
     spaceOrder |-> <<id>>,
     result |-> [st.result EXCEPT !.importedFromObsidian = Append(@, id)]]

\* sync-utils.ts 42-57: a host identifier without a space is imported.
SyncImportEntry(st, id, name) ==
    [spaces |-> SetKey(st.spaces, id, ImportedSpace(name)),
     spaceOrder |-> IF Includes(st.spaceOrder, id) THEN st.spaceOrder
                    ELSE Append(st.spaceOrder, id),
     result |-> [st.result EXCEPT !.importedFromObsidian = Append(@, id)]]

\* A conflict resolution in favour of the store.
SyncResolveConflictKeepName(st, id, name) ==
    LET contextName == st.spaces[id].name
        resolvedName == contextName
    IN [spaces |-> [st.spaces EXCEPT ![id].name = resolvedName],
        spaceOrder |-> st.spaceOrder,
        result |-> [st.result EXCEPT !.conflicts =
                      Append(@, [workspaceId |-> id, obsidianName |-> name,
                                 contextName |-> contextName,
                                 resolvedName |-> resolvedName])]]

\* sync-utils.ts 58-80: a name conflict is resolved in favour of the host.
SyncResolveConflict(st, id, name) ==
    LET contextName == st.spaces[id].name
        resolvedName == name
    IN [spaces |-> [st.spaces EXCEPT ![id].name = resolvedName],
        spaceOrder |-> st.spaceOrder,
        result |-> [st.result EXCEPT !.conflicts =
                      Append(@, [workspaceId |-> id, obsidianName |-> name,
                                 contextName |-> contextName,
                                 resolvedName |-> resolvedName])]]

\* sync-utils.ts 41-81: the first loop, over Object.entries of the snapshot
\* in the order `keys`.  st = [spaces, spaceOrder, result].
RECURSIVE SyncFromObsidian(_, _, _)
SyncFromObsidian(keys, snap, st) ==
    IF keys = <<>> THEN st
    ELSE LET id == Head(keys)
             name == snap[id]
         IN SyncFromObsidian(Tail(keys), snap,
              IF id \notin DOMAIN st.spaces THEN SyncImportEntry(st, id, name)
              ELSE IF st.spaces[id].name # name THEN SyncResolveConflict(st, id, name)
              ELSE st)

\* A failed creation that leaves no trace in the report.
SyncCreateFailedSilently(res, id, message) == res

\* sync-utils.ts 94-99: the catch of the second loop records the identifier
\* and the message of the error, and the loop goes on.
SyncCreateFailed(res, id, message) ==
    [res EXCEPT !.errors = Append(@, [workspaceId |-> id, error |-> message])]

\* sync-utils.ts 84-102: the second loop, run until the next await that
\* suspends (saveData inside createObsidianWorkspace) or until the list is
\* exhausted.  `throws` are the identifiers for which the host's
\* saveWorkspace throws.  createObsidianWorkspace does nothing, and does not
\* throw, when the Workspaces plugin is disabled.
RECURSIVE SyncToObsidian(_, _, _, _, _, _)
SyncToObsidian(todo, sp, ws, en, res, throws) ==
    IF todo = <<>>
    THEN [cur |-> Null, todo |-> <<>>, workspaces |-> ws, result |-> res]
    ELSE LET id == Head(todo)
         IN IF id \notin DOMAIN sp
            THEN \* settings.spaces[spaceId].name throws a TypeError
                 SyncToObsidian(Tail(todo), sp, ws, en,
                     SyncCreateFailed(res, id, "TypeError"), throws)
            ELSE IF ~en
            THEN SyncToObsidian(Tail(todo), sp, ws, en,
                     [res EXCEPT !.createdInObsidian = Append(@, id)], throws)
            ELSE IF id \in throws
            THEN SyncToObsidian(Tail(todo), sp, ws, en,
                     SyncCreateFailed(res, id, "HostApiError"), throws)
            ELSE [cur |-> id, todo |-> Tail(todo),
                  workspaces |-> SetKey(ws, id, sp[id].name), result |-> res]

\* backupThemeState (obsidian-utils.ts 692-704)
BackupTheme ==
    /\ originalObsidianTheme' = IF originalObsidianTheme = Null
                                THEN hostTheme ELSE originalObsidianTheme
    /\ originalObsidianThemeMode' = IF originalObsidianThemeMode = Null
                                    THEN hostThemeMode ELSE originalObsidianThemeMode

\* ------------------------------------------------------------------------
\* Space utilities (space-utils.ts)
\* ------------------------------------------------------------------------

\* name.toLowerCase().replace(/[^a-z0-9]/g, '-') on the names of the model.
BaseId(name) ==
    CASE name = "Space" -> "space"
      [] name = "My Space" -> "my-space"
      [] OTHER -> name

\* The while loop of generateSpaceId: `${baseId}-${counter}` until the
\* identifier is free.
RECURSIVE FirstFreeId(_, _, _, _)
FirstFreeId(spaceId, baseId, counter, existingSpaces) ==
    IF spaceId \notin DOMAIN existingSpaces THEN spaceId
    ELSE FirstFreeId(baseId \o "-" \o ToString(counter), baseId, counter + 1, existingSpaces)

\* !name || name.trim().length === 0, on the names of the model.
IsBlank(name) == name = "" \/ name = " "

\* An identifier made from the name alone, without the search for a free one.
generateSpaceIdNoCounter(name, existingSpaces) ==
    IF IsBlank(name) THEN "space" ELSE BaseId(name)

\* generateSpaceId (space-utils.ts 6-29)
generateSpaceId(name, existingSpaces) ==
    IF IsBlank(name)
    THEN FirstFreeId("space", "space", 1, existingSpaces)
    ELSE FirstFreeId(BaseId(name), BaseId(name), 1, existingSpaces)

\* The SpaceConfig createNewSpace stores (main.ts 341-348) for the dialog
\* input of the model: an icon, a description, no theme, themeMode 'system'.
CreatedSpace(name) ==
    [name |-> name, icon |-> "sparkles", autoSave |-> TRUE,
     theme |-> Undefined, themeMode |-> "system", description |-> "notes"]

\* ------------------------------------------------------------------------
\* Initial state: loadSettings on a fresh install
\* ------------------------------------------------------------------------

Init ==
    /\ spaces = EmptyMap
    /\ spaceOrder = <<>>
    /\ currentSpaceId = ""
    /\ workspaceLastSeen = EmptyMap
    /\ workspaces \in UNION {[D -> Names] : D \in {X \in SUBSET Ids : Cardinality(X) <= MaxInitialWorkspaces}}
    /\ enabled = TRUE
    /\ now = StartMs
    /\ ops = 0
    /\ loaded = FALSE
    /\ syncInProgress = FALSE
    /\ syncCur = Null
    /\ syncTodo = <<>>
    /\ result = EmptyResult
    /\ switchingToSpaceId = Null
    /\ switchPc = "idle"
    /\ deletePc = "idle"
    /\ deleteId = Null
    /\ createPc = "idle"
    /\ createId = Null
    /\ createName = Null
    /\ notice = Null
    /\ switchCalls = 0
    /\ commits = 0
    /\ loads = 0
    /\ obsidianWorkspaceNames = <<>>
    /\ syncRepeat = FALSE
    /\ syncReturn = "none"
    /\ deletionDetectionInProgress = FALSE
    /\ switchLog = <<>>
    /\ themeError = FALSE
    /\ themeChanged = FALSE
    /\ themeRestore = "none"
    /\ loadError = FALSE
    /\ hostTheme = "obsidian"
    /\ hostThemeMode = "dark"
    /\ originalObsidianTheme = Null
    /\ originalObsidianThemeMode = Null
    /\ navTarget = Null
    /\ layoutTimers = 0
    /\ savedId = Null
    /\ burst = 0
    /\ monitoring = FALSE
    /\ persisted = Persist(spaces, spaceOrder, currentSpaceId)
    /\ autoSwitchTimers = {}

\* initializeDefaultSpace (main.ts 167-200); onload then goes on to
\* setupWorkspaceLoadMonitoring, which wraps loadWorkspace when the Workspaces
\* plugin is enabled, and to backupThemeState (main.ts 121-123).
initializeDefaultSpace ==
    /\ ~loaded
    /\ loaded' = TRUE
    /\ IF enabled /\ DOMAIN spaces = {}
       THEN \E rest \in Orderings(DOMAIN workspaces \ {"space-1"}) :
              /\ spaces' = [id \in {"space-1"} \cup DOMAIN workspaces |->
                              IF id = "space-1"
                              THEN [name |-> "My Space", icon |-> "home", autoSave |-> TRUE,
                                    theme |-> Undefined, themeMode |-> Undefined,
                                    description |-> Undefined]
                              ELSE ImportedSpace(IF workspaces[id] = "" THEN id
                                                 ELSE workspaces[id])]
              /\ spaceOrder' = <<"space-1">> \o rest
              /\ currentSpaceId' = "space-1"
              /\ persisted' = Persist(spaces', spaceOrder', "space-1")
       ELSE UNCHANGED <<spaces, spaceOrder, currentSpaceId, persisted>>
    /\ UNCHANGED <<workspaceLastSeen, workspaces, enabled, now, ops, syncVars, switchVars, deleteVars, createVars, notice>>
    /\ BackupTheme
    /\ monitoring' = enabled
    /\ UNCHANGED <<hostTheme, hostThemeMode, deletionDetectionInProgress, navVars, layoutVars, autoSwitchTimers>>

\* ------------------------------------------------------------------------
\* Environment: the clock and the user's native changes to the registry
\* ------------------------------------------------------------------------

Tick ==
    /\ now < MaxNow
    /\ now' = now + TickMs
    /\ UNCHANGED <<storeVars, hostVars, ops, loaded, syncVars, switchVars, deleteVars, createVars, notice>>
    /\ UNCHANGED <<themeVars, detectVars, navVars, layoutVars, monitorVars>>

HostCreate ==
    /\ loaded /\ ops < MaxOps
    /\ \E id \in Ids \ DOMAIN workspaces, n \in Names :
         workspaces' = SetKey(workspaces, id, n)
    /\ ops' = ops + 1
    /\ UNCHANGED <<storeVars, enabled, now, loaded, syncVars, switchVars, deleteVars, createVars, notice>>
    /\ UNCHANGED <<themeVars, detectVars, navVars, layoutVars, monitorVars>>

HostDelete ==
    /\ loaded /\ ops < MaxOps
    /\ \E id \in DOMAIN workspaces : workspaces' = RemoveKey(workspaces, id)
    /\ ops' = ops + 1
    /\ UNCHANGED <<storeVars, enabled, now, loaded, syncVars, switchVars, deleteVars, createVars, notice>>
    /\ UNCHANGED <<themeVars, detectVars, navVars, layoutVars, monitorVars>>

HostToggle ==
    /\ loaded /\ ops < MaxOps
    /\ enabled' = ~enabled
    /\ ops' = ops + 1
    /\ UNCHANGED <<storeVars, workspaces, now, loaded, syncVars, switchVars, deleteVars, createVars, notice>>
    /\ UNCHANGED <<themeVars, detectVars, navVars, layoutVars, monitorVars>>

\* ------------------------------------------------------------------------
\* safeDeletionDetection -> handleWorkspaceDeletions
\* (deletion-detection-utils.ts 101-170).  The body has no await: the
\* deletionDetectionInProgress flag is set and cleared within one step.
\* ------------------------------------------------------------------------

safeDeletionDetection ==
    /\ loaded
    /\ ops < MaxOps
    /\ ops' = ops + 1
    /\ LET snap == getObsidianWorkspaceNames
           deleted == detectAndHandleWorkspaceDeletions(spaces, snap)
           removed == removeDeletedWorkspaces(spaces, spaceOrder, deleted)
       IN /\ deleted # {}
          /\ spaces' = removed.spaces
          /\ spaceOrder' = removed.spaceOrder
          /\ currentSpaceId' = IF currentSpaceId \in deleted
                               THEN switchToFirstWorkspace(removed.spaceOrder, currentSpaceId)
                               ELSE currentSpaceId
    /\ UNCHANGED <<workspaceLastSeen, hostVars, now, loaded, syncVars, switchVars, deleteVars, createVars, notice>>
    /\ ~deletionDetectionInProgress
    /\ deletionDetectionInProgress' = FALSE
    /\ persisted' = persisted   \* main.ts 753-755: no saveSettings follows
    /\ UNCHANGED <<themeVars, navVars, layoutVars, monitorVars>>

\* ------------------------------------------------------------------------
\* handleWorkspaceChange (main.ts 571-743); synchronous up to the deferred
\* saveSettings timers.
\* ------------------------------------------------------------------------

\* The body of handleWorkspaceChange: steps 1 to 4 (main.ts 576-735).
HandleWorkspaceChangeBody ==
    /\ LET snap == getObsidianWorkspaceNames
           deleted == ChangeDeleted(spaces, snap, workspaceLastSeen, now)
           currentDeleted == currentSpaceId \in deleted
           seen1 == ChangeSeen(spaces, snap, workspaceLastSeen, now)
       IN IF deleted # {} /\ currentDeleted /\ Requery(currentSpaceId)
          THEN \* the verification of the current workspace returns early
               /\ workspaceLastSeen' = seen1
               /\ UNCHANGED <<spaces, spaceOrder, currentSpaceId, persisted>>
          ELSE LET sp1 == RemoveKeys(spaces, deleted)
                   order1 == SpliceAll(spaceOrder, deleted)
                   seen2 == RemoveKeys(seen1, {id \in deleted : LastSeenOf(seen1, id) # 0})
                   cur1 == IF currentDeleted THEN "default" ELSE currentSpaceId
                   new == ChangeNew(sp1, snap)
               IN \E newWorkspaces \in Orderings(new) :
                    /\ spaces' = [id \in DOMAIN sp1 \cup new |->
                                    IF id \in new THEN ImportedSpace(snap[id]) ELSE sp1[id]]
                    /\ spaceOrder' = PushAll(order1, newWorkspaces)
                    /\ workspaceLastSeen' = [id \in DOMAIN seen2 \cup new |->
                                               IF id \in new THEN now ELSE seen2[id]]
                    /\ currentSpaceId' = cur1
                    /\ persisted' = IF deleted # {} \/ new # {}
                                    THEN Persist(spaces', spaceOrder', cur1)
                                    ELSE persisted
    /\ UNCHANGED <<hostVars, now, loaded, syncVars, switchVars, deleteVars, createVars, notice>>
    /\ UNCHANGED <<themeVars, deletionDetectionInProgress, navVars, layoutVars, monitorVars>>

\* handleWorkspaceChange called once.
handleWorkspaceChange ==
    /\ loaded
    /\ ops < MaxOps
    /\ ops' = ops + 1
    /\ HandleWorkspaceChangeBody

\* ------------------------------------------------------------------------
\* safeBidirectionalSync -> performBidirectionalSync (sync-utils.ts 26-113,
\* 176-197), called by syncMissingWorkspacesFromObsidian.
\* ------------------------------------------------------------------------

\* main.ts 525-531: syncMissingWorkspacesFromObsidian, the caller of
\* safeBidirectionalSync, saves the settings when the result reports an
\* import, a creation or a conflict.
SyncHasChanges(res) ==
    \/ Len(res.importedFromObsidian) > 0
    \/ Len(res.createdInObsidian) > 0
    \/ Len(res.conflicts) > 0

\* A safeBidirectionalSync without the guard of sync-utils.ts 182.
SyncGuardMissing == syncInProgress = syncInProgress

\* sync-utils.ts 182-187: the call goes on only when no sync is running.
SyncGuard == ~syncInProgress

\* The call: guard, snapshot, first loop, and the second loop up to its first
\* suspending await.  A call that finds a sync running returns null.
safeBidirectionalSync ==
    /\ loaded
    /\ ops < MaxOps
    /\ ops' = ops + 1
    /\ IF SyncGuard
       THEN LET snap == getObsidianWorkspaceNames
            IN \E keys \in Orderings(DOMAIN snap) :
                 LET st == SyncFromObsidian(keys, snap,
                             [spaces |-> spaces, spaceOrder |-> spaceOrder,
                              result |-> EmptyResult])
                     missing == {id \in DOMAIN st.spaces : ~InSnapshot(snap, id)}
                 IN \E todo \in Orderings(missing), throws \in SUBSET missing :
                      LET out == SyncToObsidian(todo, st.spaces, workspaces, enabled,
                                                st.result, throws)
                      IN /\ spaces' = st.spaces
                         /\ spaceOrder' = st.spaceOrder
                         /\ workspaces' = out.workspaces
                         /\ syncCur' = out.cur
                         /\ syncTodo' = out.todo
                         /\ result' = out.result
                         /\ syncInProgress' = (out.cur # Null)
                         /\ obsidianWorkspaceNames' = <<snap>>
                         /\ syncRepeat' = (out.cur # Null /\ obsidianWorkspaceNames = <<snap>>)
                         /\ syncReturn' = IF out.cur = Null THEN "result" ELSE syncReturn
                         /\ persisted' = IF out.cur = Null /\ SyncHasChanges(out.result)
                                         THEN Persist(st.spaces, st.spaceOrder, currentSpaceId)
                                         ELSE persisted
       ELSE /\ syncReturn' = Null
            /\ UNCHANGED <<spaces, spaceOrder, workspaces, syncInProgress, syncCur, syncTodo,
                           result, obsidianWorkspaceNames, syncRepeat, persisted>>
    /\ UNCHANGED <<currentSpaceId, workspaceLastSeen, enabled, now, loaded, switchVars, deleteVars, createVars, notice>>
    /\ UNCHANGED <<themeVars, deletionDetectionInProgress, navVars, layoutVars, monitorVars>>

\* saveData of the pending createObsidianWorkspace resolves (ok) or rejects;
\* the loop goes on to the next suspending await or returns.
SyncResume ==
    /\ syncInProgress
    /\ syncCur # Null
    /\ \E ok \in BOOLEAN, throws \in SUBSET ToSet(syncTodo) :
         LET res1 == IF ok
                     THEN [result EXCEPT !.createdInObsidian = Append(@, syncCur)]
                     ELSE SyncCreateFailed(result, syncCur, "HostApiError")
             out == SyncToObsidian(syncTodo, spaces, workspaces, enabled, res1, throws)
         IN /\ workspaces' = out.workspaces
            /\ syncCur' = out.cur
            /\ syncTodo' = out.todo
            /\ result' = out.result
            /\ syncInProgress' = (out.cur # Null)
            /\ syncRepeat' = (out.cur # Null /\ syncRepeat)
            /\ syncReturn' = IF out.cur = Null THEN "result" ELSE syncReturn
            /\ persisted' = IF out.cur = Null /\ SyncHasChanges(out.result)
                            THEN Persist(spaces, spaceOrder, currentSpaceId)
                            ELSE persisted
    /\ UNCHANGED <<obsidianWorkspaceNames, storeVars, enabled, now, ops, loaded, switchVars, deleteVars, createVars, notice>>
    /\ UNCHANGED <<themeVars, deletionDetectionInProgress, navVars, layoutVars, monitorVars>>

\* ------------------------------------------------------------------------
\* Theme coordination (obsidian-utils.ts 239-746).  The host keeps one theme
\* and one mode; setTheme / setThemeTemporarily make getCurrentTheme return
\* the name they were given, setThemeMode / setThemeModeTemporarily put the
\* body class that getCurrentThemeMode reads.  Each of the four may throw.
\* ------------------------------------------------------------------------

ThemeCalls == {"setTheme", "setThemeMode", "setThemeTemporarily", "setThemeModeTemporarily"}

\* Themes and modes the host can show.  getCurrentThemeMode reads the body
\* class, so the mode "system" shows as the mode the system prefers.
Themes == {"obsidian", "minimal"}
Modes == {"dark", "light"}

\* JavaScript truthiness of an optional string.
Truthy(v) == v # Undefined /\ v # "" /\ v # Null

\* A restoreThemeState that restores the theme but not the mode.
restoreThemeStateThemeOnly(th, md, throws) ==
    IF ~Truthy(originalObsidianTheme) /\ ~Truthy(originalObsidianThemeMode)
    THEN [theme |-> th, mode |-> md, error |-> FALSE]
    ELSE IF Truthy(originalObsidianTheme) /\ th # originalObsidianTheme /\ "setTheme" \in throws
    THEN [theme |-> th, mode |-> md, error |-> TRUE]
    ELSE [theme |-> IF Truthy(originalObsidianTheme) THEN originalObsidianTheme ELSE th,
          mode |-> md, error |-> FALSE]

\* restoreThemeState (obsidian-utils.ts 709-738) on a host showing th / md;
\* error: the function threw.
restoreThemeState(th, md, throws) ==
    IF ~Truthy(originalObsidianTheme) /\ ~Truthy(originalObsidianThemeMode)
    THEN [theme |-> th, mode |-> md, error |-> FALSE]
    ELSE IF Truthy(originalObsidianTheme) /\ th # originalObsidianTheme /\ "setTheme" \in throws
    THEN [theme |-> th, mode |-> md, error |-> TRUE]
    ELSE LET th1 == IF Truthy(originalObsidianTheme) THEN originalObsidianTheme ELSE th
         IN IF /\ Truthy(originalObsidianThemeMode)
               /\ md # originalObsidianThemeMode
               /\ "setThemeMode" \in throws
            THEN [theme |-> th1, mode |-> md, error |-> TRUE]
            ELSE [theme |-> th1,
                  mode |-> IF Truthy(originalObsidianThemeMode)
                           THEN originalObsidianThemeMode ELSE md,
                  error |-> FALSE]

\* applySpaceTheme (obsidian-utils.ts 453-494); prefers is the mode the
\* system prefers, which the mode "system" resolves to.
applySpaceTheme(theme, themeMode, th, md, prefers, throws) ==
    LET themeToApply == IF theme = ""
                        THEN (IF Truthy(originalObsidianTheme)
                              THEN originalObsidianTheme ELSE th)
                        ELSE theme
        setsTheme == theme # Undefined /\ th # themeToApply
        modeShown == IF themeMode = "system" THEN prefers ELSE themeMode
    IN IF setsTheme /\ "setThemeTemporarily" \in throws
       THEN [theme |-> th, mode |-> md, error |-> TRUE]
       ELSE LET th1 == IF setsTheme THEN themeToApply ELSE th
            IN IF /\ Truthy(themeMode)
                  /\ md # themeMode
                  /\ "setThemeModeTemporarily" \in throws
               THEN [theme |-> th1, mode |-> md, error |-> TRUE]
               ELSE [theme |-> th1,
                     mode |-> IF Truthy(themeMode) /\ md # themeMode THEN modeShown ELSE md,
                     error |-> FALSE]

\* A theme step that leaves the host as a failed applySpaceTheme left it.
SwitchThemeStepNoRestore(spaceId, prefers, throws) ==
    IF /\ spaceId \in DOMAIN spaces
       /\ (Truthy(spaces[spaceId].theme) \/ Truthy(spaces[spaceId].themeMode))
    THEN LET a == applySpaceTheme(spaces[spaceId].theme, spaces[spaceId].themeMode,
                                  hostTheme, hostThemeMode, prefers, throws)
         IN [theme |-> a.theme, mode |-> a.mode, error |-> a.error, restore |-> "none"]
    ELSE LET r == restoreThemeState(hostTheme, hostThemeMode, throws)
         IN [theme |-> r.theme, mode |-> r.mode, error |-> r.error,
             restore |-> IF r.error THEN "threw" ELSE "returned"]

\* The theme step of switchToSpace (main.ts 217-238): apply the theme of the
\* space, restoring the original theme when that throws; restore the
\* original theme for a space without theme and mode.  Every error is caught.
SwitchThemeStep(spaceId, prefers, throws) ==
    IF /\ spaceId \in DOMAIN spaces
       /\ (Truthy(spaces[spaceId].theme) \/ Truthy(spaces[spaceId].themeMode))
    THEN LET a == applySpaceTheme(spaces[spaceId].theme, spaces[spaceId].themeMode,
                                  hostTheme, hostThemeMode, prefers, throws)
             r == restoreThemeState(a.theme, a.mode, throws)
         IN IF a.error
            THEN [theme |-> r.theme, mode |-> r.mode, error |-> TRUE,
                  restore |-> IF r.error THEN "threw" ELSE "returned"]
            ELSE [theme |-> a.theme, mode |-> a.mode, error |-> FALSE, restore |-> "none"]
    ELSE LET r == restoreThemeState(hostTheme, hostThemeMode, throws)
         IN [theme |-> r.theme, mode |-> r.mode, error |-> r.error,
             restore |-> IF r.error THEN "threw" ELSE "returned"]

\* ------------------------------------------------------------------------
\* switchToSpace (main.ts 202-268)
\* ------------------------------------------------------------------------

\* A saveCurrentSpaceState that does not look at autoSave.
saveCurrentSpaceStateAlways ==
    IF currentSpaceId \in DOMAIN spaces /\ enabled
    THEN currentSpaceId ELSE Null

\* saveCurrentSpaceState (main.ts 285-298) and saveWorkspaceState
\* (obsidian-utils.ts 30-40): the identifier passed to instance.saveWorkspace,
\* Null when no call is made.  The call is made for a current space that
\* exists and has autoSave, when the Workspaces plugin is enabled; an error
\* it throws is caught.
saveCurrentSpaceState ==
    IF /\ currentSpaceId \in DOMAIN spaces
       /\ spaces[currentSpaceId].autoSave
       /\ enabled
    THEN currentSpaceId ELSE Null

\* A saveCurrentSpaceState that lets the error of the host call through.
SaveErrorEscapesAlways(saveThrows) == saveThrows

\* main.ts 293-297: an error thrown by saveWorkspaceState is caught and logged.
SaveErrorEscapes(saveThrows) == FALSE

\* A switchToSpace without the guard of main.ts 203.
SwitchGuardMissing(spaceId) == spaceId = spaceId

\* main.ts 203: the call goes on only when no switch is running and the
\* target is not the current space.
SwitchGuard(spaceId) == switchingToSpaceId = Null /\ spaceId # currentSpaceId

\* A start that assigns currentSpaceId before it saves the outgoing layout.
SwitchStartCommitFirst(spaceId) ==
    /\ switchingToSpaceId' = spaceId
    /\ currentSpaceId' = spaceId
    /\ switchPc' = "saveSettings"
    /\ switchCalls' = IF switchingToSpaceId = spaceId THEN switchCalls + 1 ELSE 1
    /\ commits' = IF switchingToSpaceId = Null THEN 1 ELSE commits + 1
    /\ loads' = IF switchingToSpaceId = Null THEN 0 ELSE loads
    /\ switchLog' = (IF switchingToSpaceId = Null THEN <<>> ELSE switchLog)
                     \o <<"commit">>
                     \o (IF spaceId \in DOMAIN spaces /\ spaces[spaceId].autoSave
                         THEN <<"save">> ELSE <<>>)
    /\ themeError' = FALSE
    /\ themeChanged' = FALSE
    /\ themeRestore' = "none"
    /\ loadError' = FALSE

\* main.ts 207-215: the steps up to the await of saveSettings.  The outgoing
\* save is a synchronous host call; it does not change the registry entries
\* the model tracks, and an error it throws is caught in
\* saveCurrentSpaceState.
SwitchStart(spaceId) ==
    \E saveThrows \in BOOLEAN :
      IF saveCurrentSpaceState # Null /\ SaveErrorEscapes(saveThrows)
      THEN \* the error leaves saveCurrentSpaceState: catch and finally of the switch
           /\ switchLog' = <<"save", "idle">>
           /\ UNCHANGED <<switchingToSpaceId, currentSpaceId, switchPc, switchCalls, commits,
                          loads, themeError, themeChanged, themeRestore, loadError>>
      ELSE /\ switchingToSpaceId' = spaceId
           /\ currentSpaceId' = spaceId
           /\ switchPc' = "saveSettings"
           /\ switchCalls' = IF switchingToSpaceId = spaceId THEN switchCalls + 1 ELSE 1
           /\ commits' = IF switchingToSpaceId = Null THEN 1 ELSE commits + 1
           /\ loads' = IF switchingToSpaceId = Null THEN 0 ELSE loads
           /\ switchLog' = (IF switchingToSpaceId = Null THEN <<>> ELSE switchLog)
                            \o (IF saveCurrentSpaceState # Null THEN <<"save">> ELSE <<>>)
                            \o <<"commit">>
           /\ themeError' = FALSE
           /\ themeChanged' = FALSE
           /\ themeRestore' = "none"
           /\ loadError' = FALSE

\* deleteSpace resumes as soon as the switch it awaits has returned
\* (main.ts 409-413): it removes the space and starts saveSettings.
DeleteFromSettings(spaceId) ==
    /\ spaces' = RemoveKey(spaces, spaceId)
    /\ spaceOrder' = FilterOut(spaceOrder, spaceId)
    /\ deletePc' = "saveSettings"
    /\ deleteId' = spaceId

\* A catch block that logs the error and restores nothing.
SwitchCatchLogsOnly(throws) ==
    [theme |-> hostTheme, mode |-> hostThemeMode, error |-> FALSE, restore |-> "none"]

\* The catch block of switchToSpace (main.ts 257-265): restoreThemeState,
\* whose own error is caught and logged.
SwitchCatch(throws) ==
    LET r == restoreThemeState(hostTheme, hostThemeMode, throws)
    IN [theme |-> r.theme, mode |-> r.mode, error |-> r.error,
        restore |-> IF r.error THEN "threw" ELSE "returned"]

\* A return that leaves switchingToSpaceId set.
SwitchReturnKeepFlag ==
    /\ switchingToSpaceId' = switchingToSpaceId
    /\ switchPc' = "idle"
    /\ switchCalls' = 0
    /\ commits' = 0
    /\ loads' = 0
    /\ IF deletePc = "awaitSwitch"
       THEN DeleteFromSettings(deleteId)
       ELSE UNCHANGED <<spaces, spaceOrder, deleteVars>>

\* main.ts 265-267: finally; the promise of switchToSpace settles and an
\* awaiting deleteSpace continues in the same turn of the event loop.
SwitchReturn ==
    /\ switchingToSpaceId' = Null
    /\ switchPc' = "idle"
    /\ switchCalls' = 0
    /\ commits' = 0
    /\ loads' = 0
    /\ IF deletePc = "awaitSwitch"
       THEN DeleteFromSettings(deleteId)
       ELSE UNCHANGED <<spaces, spaceOrder, deleteVars>>

\* A call of switchToSpace (main.ts 202-215), up to its first await.
\* A call that returns at the guard (main.ts 203-205) changes nothing; it is
\* counted when it names the target of the running switch.
SwitchCall(spaceId) ==
    /\ loaded
    /\ ops < MaxOps
    /\ ops' = ops + 1
    /\ IF SwitchGuard(spaceId)
       THEN SwitchStart(spaceId)
       ELSE /\ switchCalls' = IF switchingToSpaceId = spaceId
                               THEN switchCalls + 1 ELSE switchCalls
            /\ UNCHANGED <<currentSpaceId, switchingToSpaceId, switchPc, commits, loads,
                           switchLog, themeError, themeChanged, themeRestore, loadError>>
    /\ UNCHANGED <<spaces, spaceOrder, workspaceLastSeen, hostVars, now, loaded,
                   syncVars, deleteVars, createVars, notice>>
    /\ UNCHANGED <<themeVars, detectVars, layoutVars, monitorVars>>

\* switchToSpace called from the sidebar's space list, the space manager
\* or the load monitor.
switchToSpace(spaceId) ==
    /\ SwitchCall(spaceId)
    /\ UNCHANGED navVars

\* A wrapper that does not compare the identifier with currentSpaceId.
MonitorLoadAnyId(workspaceId, ok) ==
    IF monitoring /\ ok /\ workspaceId \in DOMAIN spaces
    THEN autoSwitchTimers \cup {workspaceId}
    ELSE autoSwitchTimers

\* obsidian-utils.ts 641-657: the wrapper of loadWorkspace.  After a load
\* that went through it sets a timer for switchToSpace(workspaceId) when the
\* identifier has a space and is not the current one.
MonitorLoad(workspaceId, ok) ==
    IF /\ monitoring
       /\ ok
       /\ workspaceId \in DOMAIN spaces
       /\ workspaceId # currentSpaceId
    THEN autoSwitchTimers \cup {workspaceId}
    ELSE autoSwitchTimers

\* The 100 ms timer of the load monitor fires (obsidian-utils.ts 651-655):
\* switchToSpace(workspaceId), whose rejection is logged.
AutoSwitch(workspaceId) ==
    /\ workspaceId \in autoSwitchTimers
    /\ autoSwitchTimers' = autoSwitchTimers \ {workspaceId}
    /\ IF SwitchGuard(workspaceId)
       THEN SwitchStart(workspaceId)
       ELSE /\ switchCalls' = IF switchingToSpaceId = workspaceId
                               THEN switchCalls + 1 ELSE switchCalls
            /\ UNCHANGED <<currentSpaceId, switchingToSpaceId, switchPc, commits, loads,
                           switchLog, themeError, themeChanged, themeRestore, loadError>>
    /\ UNCHANGED <<spaces, spaceOrder, workspaceLastSeen, hostVars, now, ops, loaded,
                   syncVars, deleteVars, createVars, notice>>
    /\ UNCHANGED <<themeVars, detectVars, navVars, layoutVars, monitoring>>

\* The host's native loadWorkspace(workspaceId), called by the user or by
\* another plugin, settles; with the wrapper installed the check of the load
\* monitor follows (obsidian-utils.ts 641-657).
loadWorkspace(workspaceId) ==
    /\ loaded
    /\ ops < MaxOps
    /\ ops' = ops + 1
    /\ enabled
    /\ Requery(workspaceId)
    /\ \E ok \in BOOLEAN : autoSwitchTimers' = MonitorLoad(workspaceId, ok)
    /\ UNCHANGED <<storeVars, hostVars, now, loaded, syncVars, switchVars, deleteVars,
                   createVars, notice>>
    /\ UNCHANGED <<themeVars, detectVars, navVars, layoutVars, monitoring>>

\* saveSettings of the switch settles.  When it resolved, the theme step and
\* loadSpaceState follow (main.ts 217-241, 300-310): loadWorkspace is awaited
\* only for a space that exists and has a host workspace.  When it rejected,
\* the catch block runs and the switch returns.
SwitchSettingsSaved ==
    /\ switchPc = "saveSettings"
    /\ \E ok \in BOOLEAN, prefers \in Modes, throws \in SUBSET ThemeCalls :
         IF ~ok
         THEN \* catch block: best-effort restoration, then finally
              LET r == SwitchCatch(throws)
              IN /\ hostTheme' = r.theme
                 /\ hostThemeMode' = r.mode
                 /\ themeError' = r.error
                 /\ themeChanged' = (r.theme # hostTheme \/ r.mode # hostThemeMode)
                 /\ themeRestore' = r.restore
                 /\ persisted' = persisted
                 /\ loadError' = loadError
                 /\ switchLog' = switchLog \o <<"theme", "idle">>
                 /\ SwitchReturn
         ELSE LET t == SwitchThemeStep(switchingToSpaceId, prefers, throws)
              IN /\ hostTheme' = t.theme
                 /\ hostThemeMode' = t.mode
                 /\ themeError' = t.error
                 /\ themeChanged' = (t.theme # hostTheme \/ t.mode # hostThemeMode)
                 /\ themeRestore' = t.restore
                 /\ persisted' = Persist(spaces, spaceOrder, currentSpaceId)
                 /\ loadError' = loadError
                 /\ IF /\ switchingToSpaceId \in DOMAIN spaces
                       /\ enabled
                       /\ Requery(switchingToSpaceId)
                    THEN /\ switchPc' = "loadWorkspace"
                         /\ loads' = loads + 1
                         /\ switchLog' = switchLog \o <<"persist", "theme", "load">>
                         /\ UNCHANGED <<switchingToSpaceId, switchCalls, commits, spaces,
                                        spaceOrder, deleteVars>>
                    ELSE /\ switchLog' = switchLog \o <<"persist", "theme", "notify", "idle">>
                         /\ SwitchReturn
    /\ UNCHANGED <<currentSpaceId, workspaceLastSeen, hostVars, now, ops, loaded,
                   syncVars, createVars, notice>>
    /\ UNCHANGED <<originalObsidianTheme, originalObsidianThemeMode, deletionDetectionInProgress, navVars, layoutVars, monitorVars>>

\* loadWorkspace of the switch settles (an error is caught in loadSpaceState).
SwitchWorkspaceLoaded ==
    /\ switchPc = "loadWorkspace"
    /\ switchLog' = switchLog \o <<"notify", "idle">>
    /\ \E ok \in BOOLEAN :
         /\ autoSwitchTimers' = MonitorLoad(switchingToSpaceId, ok)
         /\ loadError' = ~ok
    /\ SwitchReturn
    /\ UNCHANGED <<currentSpaceId, workspaceLastSeen, hostVars, now, ops, loaded,
                   syncVars, createVars, notice, themeError, themeChanged, themeRestore>>
    /\ UNCHANGED <<themeVars, detectVars, navVars, layoutVars, monitoring>>

\* ------------------------------------------------------------------------
\* deleteSpace (main.ts 393-433)
\* ------------------------------------------------------------------------

\* A guard that looks at spaceOrder instead of the remaining spaces.
IsLastRemainingEmptyOrder(order, spaceId) == Len(order) = 0

\* main.ts 395-396: no space would remain.
IsLastRemaining(order, spaceId) == Len(FilterOut(order, spaceId)) = 0

deleteSpace(spaceId) ==
    /\ loaded
    /\ ops < MaxOps
    /\ ops' = ops + 1
    /\ deletePc = "idle"
    /\ LET otherSpaces == FilterOut(spaceOrder, spaceId)
       IN IF IsLastRemaining(spaceOrder, spaceId)
          THEN \* rejected with a Notice
               /\ notice' = "Cannot delete the last remaining space."
               /\ UNCHANGED <<spaces, spaceOrder, currentSpaceId, switchVars, deleteVars>>
          ELSE IF /\ spaceId = currentSpaceId
                  /\ Len(otherSpaces) > 0
                  /\ SwitchGuard(otherSpaces[1])
          THEN \* switchToSpace(otherSpaces[0]) is started and awaited
               /\ SwitchStart(otherSpaces[1])
               /\ deletePc' = "awaitSwitch"
               /\ deleteId' = spaceId
               /\ UNCHANGED <<spaces, spaceOrder, notice>>
          ELSE \* no switch, or switchToSpace returned at its guard
               /\ DeleteFromSettings(spaceId)
               /\ UNCHANGED <<currentSpaceId, switchVars, notice>>
    /\ UNCHANGED <<workspaceLastSeen, hostVars, now, loaded, syncVars, createVars>>
    /\ UNCHANGED <<themeVars, detectVars, navVars, layoutVars, monitorVars>>

\* saveSettings of deleteSpace settles; when it resolved,
\* deleteObsidianWorkspace removes the host workspace (main.ts 413-421).
DeleteSettingsSaved ==
    /\ deletePc = "saveSettings"
    /\ \E ok \in BOOLEAN :
         /\ workspaces' = IF ok /\ enabled /\ Requery(deleteId)
                          THEN RemoveKey(workspaces, deleteId)
                          ELSE workspaces
         /\ persisted' = IF ok THEN Persist(spaces, spaceOrder, currentSpaceId) ELSE persisted
    /\ deletePc' = "idle"
    /\ deleteId' = Null
    /\ UNCHANGED <<storeVars, enabled, now, ops, loaded, syncVars, switchVars,
                   createVars, notice>>
    /\ UNCHANGED <<themeVars, deletionDetectionInProgress, navVars, layoutVars, monitorVars>>

\* ------------------------------------------------------------------------
\* createNewSpace (main.ts 333-376)
\* ------------------------------------------------------------------------

\* main.ts 338-350: the identifier is generated and the space is stored under
\* it and pushed to spaceOrder.
StoreNewSpace(name) ==
    LET spaceId == generateSpaceId(name, spaces)
    IN /\ spaces' = SetKey(spaces, spaceId, CreatedSpace(name))
       /\ spaceOrder' = Append(spaceOrder, spaceId)
       /\ createId' = spaceId
       /\ createName' = name

\* main.ts 337-351: the dialog returned `name`; the space is stored and
\* saveSettings is started.
createNewSpace(name) ==
    /\ loaded
    /\ ops < MaxOps
    /\ ops' = ops + 1
    /\ createPc = "idle"
    /\ generateSpaceId(name, spaces) \in Ids
    /\ StoreNewSpace(name)
    /\ createPc' = "saveSettings"
    /\ UNCHANGED <<currentSpaceId, workspaceLastSeen, hostVars, now, loaded,
                   syncVars, switchVars, deleteVars, notice>>
    /\ UNCHANGED <<themeVars, detectVars, navVars, layoutVars, monitorVars>>

\* main.ts 361-362: switchToSpace(spaceId); nothing that createNewSpace does
\* after it touches the store or the host.
CreateSwitch ==
    /\ IF SwitchGuard(createId)
       THEN SwitchStart(createId)
       ELSE UNCHANGED <<currentSpaceId, switchVars>>
    /\ createPc' = "idle"
    /\ createId' = Null
    /\ createName' = Null

\* saveSettings of createNewSpace settles.  When it rejected, createNewSpace
\* ends there.  When it resolved, createObsidianWorkspace writes the registry
\* entry and awaits saveData (main.ts 353-359); with the Workspaces plugin
\* disabled, or when the host's saveWorkspace throws, it goes on to the switch.
CreateSettingsSaved ==
    /\ createPc = "saveSettings"
    /\ \E ok \in BOOLEAN, hostThrows \in BOOLEAN :
         /\ persisted' = IF ok THEN Persist(spaces, spaceOrder, currentSpaceId) ELSE persisted
         /\ IF ~ok
            THEN /\ createPc' = "idle"
                 /\ createId' = Null
                 /\ createName' = Null
                 /\ UNCHANGED <<currentSpaceId, switchVars, workspaces>>
            ELSE IF enabled /\ ~hostThrows
            THEN /\ workspaces' = SetKey(workspaces, createId, createName)
                 /\ createPc' = "saveData"
                 /\ UNCHANGED <<currentSpaceId, switchVars, createId, createName>>
            ELSE /\ CreateSwitch
                 /\ UNCHANGED workspaces
    /\ UNCHANGED <<spaces, spaceOrder, workspaceLastSeen, enabled, now, ops, loaded,
                   syncVars, deleteVars, notice>>
    /\ UNCHANGED <<themeVars, deletionDetectionInProgress, navVars, layoutVars, monitorVars>>

\* saveData of createObsidianWorkspace settles (a rejection is caught).
CreateWorkspaceSaved ==
    /\ createPc = "saveData"
    /\ CreateSwitch
    /\ UNCHANGED <<spaces, spaceOrder, workspaceLastSeen, hostVars, now, ops, loaded,
                   syncVars, deleteVars, notice>>
    /\ UNCHANGED <<themeVars, detectVars, navVars, layoutVars, monitorVars>>

Next ==
    \/ initializeDefaultSpace
    \/ \E spaceId \in Ids : switchToSpace(spaceId)
    \/ SwitchSettingsSaved
    \/ SwitchWorkspaceLoaded
    \/ \E workspaceId \in Ids : AutoSwitch(workspaceId)
    \/ \E spaceId \in Ids : deleteSpace(spaceId)
    \/ DeleteSettingsSaved
    \/ \E name \in CreateNames : createNewSpace(name)
    \/ CreateSettingsSaved
    \/ CreateWorkspaceSaved
    \/ safeBidirectionalSync
    \/ SyncResume
    \/ safeDeletionDetection
    \/ handleWorkspaceChange
    \/ Tick
    \/ HostCreate
    \/ HostDelete
    \/ HostToggle

Spec == Init /\ [][Next]_vars

\* ------------------------------------------------------------------------
\* The switch controller alone: switchToSpace and the host environment.
\* ------------------------------------------------------------------------

NextSwitch ==
    \/ initializeDefaultSpace
    \/ \E spaceId \in Ids : switchToSpace(spaceId)
    \/ SwitchSettingsSaved
    \/ SwitchWorkspaceLoaded
    \/ HostCreate
    \/ HostDelete
    \/ HostToggle

SpecSwitch == Init /\ [][NextSwitch]_vars

\* ------------------------------------------------------------------------
\* The sync engine alone: successive calls of safeBidirectionalSync on a
\* store and a host registry drawn from bounded sets.
\* ------------------------------------------------------------------------

\* Largest number of spaces of a drawn store.
MaxSyncSpaces == 2

\* Largest number of workspaces of a drawn host registry.
MaxSyncWorkspaces == 2

InitSync ==
    /\ \E D \in {X \in SUBSET Ids : X # {} /\ Cardinality(X) <= MaxSyncSpaces} :
         /\ spaces \in [D -> {CreatedSpace(n) : n \in Names}]
         /\ spaceOrder \in Orderings(D)
    /\ currentSpaceId = spaceOrder[1]
    /\ workspaceLastSeen = EmptyMap
    /\ workspaces \in UNION {[D -> Names] :
                              D \in {X \in SUBSET Ids : Cardinality(X) <= MaxSyncWorkspaces}}
    /\ enabled \in BOOLEAN
    /\ now = StartMs
    /\ ops = 0
    /\ loaded = TRUE
    /\ syncInProgress = FALSE
    /\ syncCur = Null
    /\ syncTodo = <<>>
    /\ result = EmptyResult
    /\ switchingToSpaceId = Null
    /\ switchPc = "idle"
    /\ deletePc = "idle"
    /\ deleteId = Null
    /\ createPc = "idle"
    /\ createId = Null
    /\ createName = Null
    /\ notice = Null
    /\ switchCalls = 0
    /\ commits = 0
    /\ loads = 0
    /\ obsidianWorkspaceNames = <<>>
    /\ syncRepeat = FALSE
    /\ syncReturn = "none"
    /\ deletionDetectionInProgress = FALSE
    /\ switchLog = <<>>
    /\ themeError = FALSE
    /\ themeChanged = FALSE
    /\ themeRestore = "none"
    /\ loadError = FALSE
    /\ hostTheme = "obsidian"
    /\ hostThemeMode = "dark"
    /\ originalObsidianTheme = Null
    /\ originalObsidianThemeMode = Null
    /\ navTarget = Null
    /\ layoutTimers = 0
    /\ savedId = Null
    /\ burst = 0
    /\ monitoring = enabled
    /\ persisted = Persist(spaces, spaceOrder, currentSpaceId)
    /\ autoSwitchTimers = {}

NextSync ==
    \/ safeBidirectionalSync
    \/ SyncResume

SpecSync == InitSync /\ [][NextSync]_vars

\* ------------------------------------------------------------------------
\* Startup: initializeWorkspaceSync (main.ts 748-755) runs the sync and then,
\* when needsDeletionDetection says so, safeDeletionDetection.  `ops` counts
\* the two calls.  The saveSettings that syncMissingWorkspacesFromObsidian
\* awaits in between changes nothing the model tracks.
\* ------------------------------------------------------------------------

\* main.ts 750: await this.syncMissingWorkspacesFromObsidian()
StartupSync ==
    /\ ops = 0
    /\ safeBidirectionalSync

\* main.ts 753-755, once the sync has returned.
StartupDetect ==
    /\ ops = 1
    /\ ~syncInProgress
    /\ IF /\ needsDeletionDetection
          /\ detectAndHandleWorkspaceDeletions(spaces, getObsidianWorkspaceNames) # {}
       THEN safeDeletionDetection
       ELSE /\ ops' = 2
            /\ UNCHANGED <<storeVars, hostVars, now, loaded, syncVars, switchVars, deleteVars,
                           createVars, notice, themeVars, detectVars, navVars, layoutVars, monitorVars>>

NextStartup ==
    \/ StartupSync
    \/ SyncResume
    \/ StartupDetect

SpecStartup == InitSync /\ [][NextStartup]_vars

\* ------------------------------------------------------------------------
\* A loaded plugin at rest: no operation is running, nothing was seen,
\* synced or backed up yet.  The store, the host registry and the host theme
\* are drawn by the specifications below.
\* ------------------------------------------------------------------------

IdleInit ==
    /\ workspaceLastSeen = EmptyMap
    /\ now = StartMs
    /\ ops = 0
    /\ loaded = TRUE
    /\ syncInProgress = FALSE
    /\ syncCur = Null
    /\ syncTodo = <<>>
    /\ result = EmptyResult
    /\ obsidianWorkspaceNames = <<>>
    /\ syncRepeat = FALSE
    /\ syncReturn = "none"
    /\ switchingToSpaceId = Null
    /\ switchPc = "idle"
    /\ switchCalls = 0
    /\ commits = 0
    /\ loads = 0
    /\ switchLog = <<>>
    /\ themeError = FALSE
    /\ themeChanged = FALSE
    /\ themeRestore = "none"
    /\ loadError = FALSE
    /\ deletePc = "idle"
    /\ deleteId = Null
    /\ createPc = "idle"
    /\ createId = Null
    /\ createName = Null
    /\ notice = Null
    /\ deletionDetectionInProgress = FALSE
    /\ originalObsidianTheme = Null
    /\ originalObsidianThemeMode = Null
    /\ navTarget = Null
    /\ layoutTimers = 0
    /\ savedId = Null
    /\ burst = 0
    /\ autoSwitchTimers = {}

\* The sync engine over a host registry that may hold an entry whose name
\* cannot be read.
InitRead ==
    /\ IdleInit
    /\ \E D \in {X \in SUBSET Ids : X # {} /\ Cardinality(X) <= MaxSyncSpaces} :
         /\ spaces \in [D -> {CreatedSpace(n) : n \in Names}]
         /\ spaceOrder \in Orderings(D)
    /\ currentSpaceId = spaceOrder[1]
    /\ workspaces \in UNION {[D -> Names \cup {Null}] :
                              D \in {X \in SUBSET Ids : Cardinality(X) <= MaxSyncWorkspaces}}
    /\ enabled \in BOOLEAN
    /\ hostTheme = "obsidian"
    /\ hostThemeMode = "dark"
    /\ monitoring = enabled
    /\ persisted = Persist(spaces, spaceOrder, currentSpaceId)

SpecRead == InitRead /\ [][NextSync]_vars

\* ------------------------------------------------------------------------
\* Navigation: the commands (main.ts 312-331) and the previous / next
\* buttons of the sidebar (SidebarManager.tsx 246-264)
\* ------------------------------------------------------------------------

\* Largest number of spaces of a drawn store.
MaxNavSpaces == 3

\* Array.prototype.indexOf: zero-based, -1 when absent.
IndexOf(s, x) ==
    IF ~Includes(s, x) THEN -1
    ELSE (CHOOSE k \in 1..Len(s) : s[k] = x /\ \A j \in 1..(k - 1) : s[j] # x) - 1

\* s[i] of a JavaScript array: undefined outside 0..length-1.
At(s, i) == IF i >= 0 /\ i < Len(s) THEN s[i + 1] ELSE Undefined

\* main.ts 313-315: nextSpaceId; (currentIndex + 1) % 0 is NaN.
NextSpaceId(order, cur) ==
    IF Len(order) = 0 THEN Undefined
    ELSE At(order, (IndexOf(order, cur) + 1) % Len(order))

\* main.ts 323-326: prevSpaceId
PrevSpaceId(order, cur) ==
    At(order, IF IndexOf(order, cur) <= 0 THEN Len(order) - 1 ELSE IndexOf(order, cur) - 1)

\* SidebarManager.tsx 259-263: nextSpaceId, Undefined when the handler makes
\* no call.
SidebarNextSpaceId(order, cur) ==
    IF IndexOf(order, cur) < Len(order) - 1 THEN At(order, IndexOf(order, cur) + 1)
    ELSE Undefined

\* SidebarManager.tsx 250-254: previousSpaceId
SidebarPreviousSpaceId(order, cur) ==
    IF IndexOf(order, cur) > 0 THEN At(order, IndexOf(order, cur) - 1) ELSE Undefined

\* A navigation helper that computed `target`: it calls switchToSpace with
\* it (the commands only when it is truthy), or returns without a call.
Navigate(target, called) ==
    IF called
    THEN /\ SwitchCall(target)
         /\ navTarget' = target
    ELSE /\ loaded
         /\ ops < MaxOps
         /\ ops' = ops + 1
         /\ navTarget' = Null
         /\ UNCHANGED <<storeVars, hostVars, now, loaded, syncVars, switchVars, deleteVars,
                        createVars, notice, themeVars, detectVars, layoutVars, monitorVars>>

switchToNextSpace ==
    /\ loaded
    /\ LET nextSpaceId == NextSpaceId(spaceOrder, currentSpaceId)
       IN Navigate(nextSpaceId, Truthy(nextSpaceId))

switchToPreviousSpace ==
    /\ loaded
    /\ LET prevSpaceId == PrevSpaceId(spaceOrder, currentSpaceId)
       IN Navigate(prevSpaceId, Truthy(prevSpaceId))

\* The buttons are disabled unless the sidebar shows more than one space
\* (SidebarManager.tsx 275-276, 349, 381).
handleNextSpace ==
    /\ Len(spaceOrder) > 1
    /\ Navigate(SidebarNextSpaceId(spaceOrder, currentSpaceId),
                IndexOf(spaceOrder, currentSpaceId) < Len(spaceOrder) - 1)

handlePreviousSpace ==
    /\ Len(spaceOrder) > 1
    /\ Navigate(SidebarPreviousSpaceId(spaceOrder, currentSpaceId),
                IndexOf(spaceOrder, currentSpaceId) > 0)

\* A store of up to MaxNavSpaces spaces, each with a host workspace, any of
\* them current.
InitNav ==
    /\ IdleInit
    /\ \E D \in {X \in SUBSET Ids : X # {} /\ Cardinality(X) <= MaxNavSpaces} :
         /\ spaces = [id \in D |-> ImportedSpace("Space")]
         /\ spaceOrder \in Orderings(D)
         /\ workspaces = [id \in D |-> "Space"]
    /\ currentSpaceId \in ToSet(spaceOrder)
    /\ enabled = TRUE
    /\ hostTheme = "obsidian"
    /\ hostThemeMode = "dark"
    /\ monitoring = enabled
    /\ persisted = Persist(spaces, spaceOrder, currentSpaceId)

NextNav ==
    \/ switchToNextSpace
    \/ switchToPreviousSpace
    \/ handleNextSpace
    \/ handlePreviousSpace
    \/ SwitchSettingsSaved
    \/ SwitchWorkspaceLoaded

SpecNav == InitNav /\ [][NextNav]_vars

\* ------------------------------------------------------------------------
\* The load monitor: native loads of host workspaces beside the user's own
\* switches (the command "next space").  The Workspaces plugin was enabled at onload, so the wrapper is
\* installed.  Timers fire and pending promises settle.
\* ------------------------------------------------------------------------

InitMonitor ==
    /\ IdleInit
    /\ \E D \in {X \in SUBSET Ids : Cardinality(X) >= 2} :
         /\ spaces \in [D -> {CreatedSpace("Space"), ImportedSpace("Space")}]
         /\ spaceOrder \in Orderings(D)
         /\ workspaces = [id \in D |-> "Space"]
    /\ currentSpaceId = spaceOrder[1]
    /\ enabled = TRUE
    /\ hostTheme = "obsidian"
    /\ hostThemeMode = "dark"
    /\ monitoring = enabled
    /\ persisted = Persist(spaces, spaceOrder, currentSpaceId)

NextMonitor ==
    \/ \E workspaceId \in Ids : loadWorkspace(workspaceId)
    \/ \E workspaceId \in Ids : AutoSwitch(workspaceId)
    \/ switchToNextSpace
    \/ SwitchSettingsSaved
    \/ SwitchWorkspaceLoaded

SpecMonitor == InitMonitor /\ [][NextMonitor]_vars

SpecMonitorLive ==
    /\ SpecMonitor
    /\ \A workspaceId \in Ids : WF_vars(AutoSwitch(workspaceId))
    /\ WF_vars(SwitchSettingsSaved)
    /\ WF_vars(SwitchWorkspaceLoaded)

\* ------------------------------------------------------------------------
\* Themes: switches between spaces with and without a theme of their own,
\* the backup of the original theme, the user's own theme changes and the
\* unloading of the plugin.  The commands and the sidebar exist before
\* onload reaches backupThemeState (main.ts 45-123), so a switch can run
\* before the backup is taken.
\* ------------------------------------------------------------------------

\* The spaces of the drawn store.
ThemeIds == {"space", "space-1"}

\* A space with the given theme settings.
ThemedSpace(theme, themeMode) ==
    [name |-> "Space", icon |-> "page", autoSave |-> TRUE,
     theme |-> theme, themeMode |-> themeMode, description |-> Undefined]

\* main.ts 123: backupThemeState(this.app)
backupThemeState ==
    /\ loaded
    /\ ops < MaxOps
    /\ ops' = ops + 1
    /\ BackupTheme
    /\ UNCHANGED <<storeVars, hostVars, now, loaded, syncVars, switchVars, deleteVars,
                   createVars, notice, hostTheme, hostThemeMode, detectVars, navVars, layoutVars, monitorVars>>

\* applyCurrentSpaceTheme (main.ts 476-498), run by the timer of onload
\* (main.ts 126-132).
applyCurrentSpaceTheme ==
    /\ loaded
    /\ ops < MaxOps
    /\ ops' = ops + 1
    /\ \E prefers \in Modes, throws \in SUBSET ThemeCalls :
         LET t == SwitchThemeStep(currentSpaceId, prefers, throws)
         IN /\ hostTheme' = t.theme
            /\ hostThemeMode' = t.mode
    /\ UNCHANGED <<storeVars, hostVars, now, loaded, syncVars, switchVars, deleteVars,
                   createVars, notice, originalObsidianTheme, originalObsidianThemeMode,
                   detectVars, navVars, layoutVars, monitorVars>>

\* The user picks another theme or mode in the host's own settings.
HostSetTheme ==
    /\ loaded
    /\ ops < MaxOps
    /\ ops' = ops + 1
    /\ \E th \in Themes, md \in Modes :
         /\ <<th, md>> # <<hostTheme, hostThemeMode>>
         /\ hostTheme' = th
         /\ hostThemeMode' = md
    /\ UNCHANGED <<storeVars, hostVars, now, loaded, syncVars, switchVars, deleteVars,
                   createVars, notice, originalObsidianTheme, originalObsidianThemeMode,
                   detectVars, navVars, layoutVars, monitorVars>>

\* onunload (main.ts 135-157): saves the current space's layout, restores
\* the original theme (an error is caught), clears the layout timer and
\* takes the wrapper off loadWorkspace when the Workspaces plugin is enabled.
\* It does not call clearThemeStateBackup and leaves the timers of the load
\* monitor alone.
onunload ==
    /\ loaded
    /\ ops < MaxOps
    /\ ops' = ops + 1
    /\ loaded' = FALSE
    /\ \E throws \in SUBSET ThemeCalls :
         LET r == restoreThemeState(hostTheme, hostThemeMode, throws)
         IN /\ hostTheme' = r.theme
            /\ hostThemeMode' = r.mode
    /\ savedId' = saveCurrentSpaceState
    /\ layoutTimers' = 0
    /\ burst' = burst
    /\ monitoring' = (monitoring /\ ~enabled)
    /\ UNCHANGED <<storeVars, hostVars, now, syncVars, switchVars, deleteVars,
                   createVars, notice, originalObsidianTheme, originalObsidianThemeMode,
                   detectVars, navVars, autoSwitchTimers>>

\* Two spaces with host workspaces; each has any combination of no theme,
\* the option "use the Obsidian theme" ('') or a theme, and no mode, a mode
\* or the mode 'system'.
InitTheme ==
    /\ IdleInit
    /\ spaces \in [ThemeIds ->
                     {ThemedSpace(t, md) : t \in {Undefined, "", "minimal"},
                                           md \in {Undefined, "light", "system"}}]
    /\ spaceOrder = <<"space-1", "space">>
    /\ currentSpaceId = "space-1"
    /\ workspaces = [id \in ThemeIds |-> "Space"]
    /\ enabled = TRUE
    /\ hostTheme = "obsidian"
    /\ hostThemeMode = "dark"
    /\ monitoring = enabled
    /\ persisted = Persist(spaces, spaceOrder, currentSpaceId)

NextTheme ==
    \/ backupThemeState
    \/ \E spaceId \in ThemeIds : switchToSpace(spaceId)
    \/ SwitchSettingsSaved
    \/ SwitchWorkspaceLoaded
    \/ applyCurrentSpaceTheme
    \/ HostSetTheme
    \/ onunload

SpecTheme == InitTheme /\ [][NextTheme]_vars

\* Every host call returns or throws: the promise a switch awaits
\* (saveSettings, loadWorkspace) settles, and the event loop then runs the
\* continuation of the switch.
SpecThemeLive ==
    InitTheme /\ [][NextTheme]_vars
        /\ WF_vars(SwitchSettingsSaved) /\ WF_vars(SwitchWorkspaceLoaded)

\* ------------------------------------------------------------------------
\* The periodic pass (main.ts 757-765) and its pre-check needsSync
\* (sync-utils.ts 147-171), over a store and a host registry drawn from
\* bounded sets.
\* ------------------------------------------------------------------------

\* A pre-check that compares identifiers and no names.
needsSyncIdsOnly ==
    LET snap == getObsidianWorkspaceNames
    IN \/ \E workspaceId \in DOMAIN snap : workspaceId \notin DOMAIN spaces
       \/ \E spaceId \in DOMAIN spaces : ~InSnapshot(snap, spaceId)

\* needsSync (sync-utils.ts 147-171)
needsSync ==
    LET snap == getObsidianWorkspaceNames
    IN \/ \E workspaceId \in DOMAIN snap : workspaceId \notin DOMAIN spaces
       \/ \E spaceId \in DOMAIN spaces : ~InSnapshot(snap, spaceId)
       \/ \E workspaceId \in DOMAIN snap :
            workspaceId \in DOMAIN spaces /\ spaces[workspaceId].name # snap[workspaceId]

\* The callback of setInterval: handleWorkspaceChange when one of the two
\* pre-checks says so, nothing otherwise.
PeriodicSync ==
    /\ loaded
    /\ IF needsSync \/ needsDeletionDetection
       THEN handleWorkspaceChange
       ELSE /\ ops < MaxOps
            /\ ops' = ops + 1
            /\ UNCHANGED <<storeVars, hostVars, now, loaded, syncVars, switchVars, deleteVars,
                           createVars, notice, themeVars, detectVars, navVars, layoutVars,
                           monitorVars>>

\* The pre-check beside the sync it stands for.
NextNeedsSync ==
    \/ PeriodicSync
    \/ safeBidirectionalSync
    \/ SyncResume

SpecNeedsSync == InitSync /\ [][NextNeedsSync]_vars

\* The periodic pass alone, the Workspaces plugin enabled and the registry
\* left alone by the user.
InitPeriodic == InitSync /\ enabled

NextPeriodic ==
    \/ PeriodicSync
    \/ Tick

SpecPeriodic == InitPeriodic /\ [][NextPeriodic]_vars

\* ------------------------------------------------------------------------
\* generateSpaceId (space-utils.ts 6-29) applied to names and stores drawn
\* from bounded sets: each step generates an identifier for a name and
\* stores the space under it, as createNewSpace does (main.ts 338-350).
\* ------------------------------------------------------------------------

\* Largest number of spaces of a drawn store.
MaxGenSpaces == 3

\* Identifiers of the drawn stores.
GenIds == {"space", "space-1", "space-2", "my-space", "my-space-1"}

\* Names given to generateSpaceId: empty, blank, and two names.
GenNames == {"", " ", "Space", "My Space"}

InitGenerate ==
    /\ IdleInit
    /\ \E D \in {X \in SUBSET GenIds : X # {} /\ Cardinality(X) <= MaxGenSpaces} :
         /\ spaces = [id \in D |-> CreatedSpace("Space")]
         /\ spaceOrder \in Orderings(D)
    /\ currentSpaceId = spaceOrder[1]
    /\ workspaces = EmptyMap
    /\ enabled = TRUE
    /\ hostTheme = "obsidian"
    /\ hostThemeMode = "dark"
    /\ monitoring = enabled
    /\ persisted = Persist(spaces, spaceOrder, currentSpaceId)

GenerateAndStore(name) ==
    /\ ops < MaxOps
    /\ ops' = ops + 1
    /\ StoreNewSpace(name)
    /\ UNCHANGED <<currentSpaceId, workspaceLastSeen, hostVars, now, loaded, syncVars,
                   switchVars, deleteVars, createPc, notice, themeVars, detectVars, navVars,
                   layoutVars, monitorVars>>

NextGenerate == \E name \in GenNames : GenerateAndStore(name)

SpecGenerate == InitGenerate /\ [][NextGenerate]_vars

\* ------------------------------------------------------------------------
\* Layout auto-save: the debounced handler of the host's layout-change event
\* (main.ts 437-449), the auto-save toggle of the settings tab and of the
\* space manager, switches, the Workspaces plugin going on and off, and the
\* unloading of the plugin.  A notification that arrives less than 500 ms
\* after the one before it arrives while the timer of that one is pending.
\* ------------------------------------------------------------------------

\* A handler that sets a timer without clearing the one before it.
ScheduleLayoutSaveNoClear(timers) == timers + 1

\* main.ts 443-446: clearTimeout, then setTimeout: one timer is pending.
ScheduleLayoutSave(timers) == 1

\* main.ts 439-441: a timer is set when no switch is running and the current
\* space has autoSave.
LayoutSaveWanted ==
    /\ switchingToSpaceId = Null
    /\ currentSpaceId \in DOMAIN spaces
    /\ spaces[currentSpaceId].autoSave

handleLayoutChange ==
    /\ loaded
    /\ ops < MaxOps
    /\ ops' = ops + 1
    /\ IF LayoutSaveWanted
       THEN /\ layoutTimers' = ScheduleLayoutSave(layoutTimers)
            /\ burst' = IF layoutTimers = 0 THEN 1 ELSE burst + 1
       ELSE UNCHANGED <<layoutTimers, burst>>
    /\ UNCHANGED <<storeVars, hostVars, now, loaded, syncVars, switchVars, deleteVars,
                   createVars, notice, themeVars, detectVars, navVars, savedId, monitorVars>>

\* The 500 ms timer fires: saveCurrentSpaceState (main.ts 444-446).
LayoutTimerFires ==
    /\ layoutTimers > 0
    /\ layoutTimers' = layoutTimers - 1
    /\ savedId' = saveCurrentSpaceState
    /\ UNCHANGED <<storeVars, hostVars, now, ops, loaded, syncVars, switchVars, deleteVars,
                   createVars, notice, themeVars, detectVars, navVars, burst, monitorVars>>

\* handleToggleAutoSave (ContextWorkspacesSettingTab.tsx 193-202) and
\* handleAutoSaveToggle (SpaceManagerModal.tsx 21-31).
handleToggleAutoSave(spaceId) ==
    /\ loaded
    /\ ops < MaxOps
    /\ ops' = ops + 1
    /\ spaceId \in DOMAIN spaces
    /\ spaces' = [spaces EXCEPT ![spaceId].autoSave = ~@]
    /\ persisted' = Persist(spaces', spaceOrder, currentSpaceId)
    /\ UNCHANGED <<spaceOrder, currentSpaceId, workspaceLastSeen, hostVars, now, loaded,
                   syncVars, switchVars, deleteVars, createVars, notice, themeVars,
                   deletionDetectionInProgress, navVars, layoutVars, monitorVars>>

InitLayout ==
    /\ IdleInit
    /\ spaces \in [ThemeIds -> {CreatedSpace("Space"), ImportedSpace("Space")}]
    /\ spaceOrder = <<"space-1", "space">>
    /\ currentSpaceId = "space-1"
    /\ workspaces = [id \in ThemeIds |-> "Space"]
    /\ enabled = TRUE
    /\ hostTheme = "obsidian"
    /\ hostThemeMode = "dark"
    /\ monitoring = enabled
    /\ persisted = Persist(spaces, spaceOrder, currentSpaceId)

NextLayout ==
    \/ handleLayoutChange
    \/ LayoutTimerFires
    \/ \E spaceId \in ThemeIds : handleToggleAutoSave(spaceId)
    \/ \E spaceId \in ThemeIds : switchToSpace(spaceId)
    \/ SwitchSettingsSaved
    \/ SwitchWorkspaceLoaded
    \/ HostToggle
    \/ onunload

SpecLayout == InitLayout /\ [][NextLayout]_vars

\* ------------------------------------------------------------------------
\* The load monitor beside the operations that change the store while a
\* switch awaits its load: the 30-second interval of initializeWorkspaceSync
\* (main.ts 757-765), createNewSpace and the user's native deletions.
\* ------------------------------------------------------------------------

\* The callback of setInterval fires: a timer step, which runs the body of
\* handleWorkspaceChange when one of the two pre-checks says so.
IntervalFires ==
    /\ needsSync \/ needsDeletionDetection
    /\ HandleWorkspaceChangeBody
    /\ UNCHANGED ops

InitLoadRace ==
    /\ IdleInit
    /\ spaces = [id \in ThemeIds |-> ImportedSpace("Space")]
    /\ spaceOrder = <<"space-1", "space">>
    /\ currentSpaceId = "space-1"
    /\ workspaces = [id \in ThemeIds |-> "Space"]
    /\ enabled = TRUE
    /\ hostTheme = "obsidian"
    /\ hostThemeMode = "dark"
    /\ originalObsidianTheme = Null
    /\ originalObsidianThemeMode = Null
    /\ monitoring = enabled
    /\ persisted = Persist(spaces, spaceOrder, currentSpaceId)

NextLoadRace ==
    \/ \E spaceId \in ThemeIds : switchToSpace(spaceId)
    \/ SwitchSettingsSaved
    \/ SwitchWorkspaceLoaded
    \/ \E workspaceId \in Ids : AutoSwitch(workspaceId)
    \/ \E name \in CreateNames : createNewSpace(name)
    \/ CreateSettingsSaved
    \/ CreateWorkspaceSaved
    \/ HostDelete
    \/ IntervalFires

SpecLoadRace == InitLoadRace /\ [][NextLoadRace]_vars

\* ------------------------------------------------------------------------
\* deleteSpace beside the pass that imports host workspaces while the plugin
\* runs, the interval pass, and the user's native deletions.
\* ------------------------------------------------------------------------

NextDeleteRace ==
    \/ \E spaceId \in ThemeIds : deleteSpace(spaceId)
    \/ DeleteSettingsSaved
    \/ SwitchSettingsSaved
    \/ SwitchWorkspaceLoaded
    \/ IntervalFires
    \/ HostDelete

SpecDeleteRace == InitLoadRace /\ [][NextDeleteRace]_vars

\* ------------------------------------------------------------------------
\* Unloading: onunload beside the timers a loaded plugin has started.  The
\* handle of the 30-second interval is not kept (main.ts 758), so onunload
\* (main.ts 135-157), which clears layoutChangeTimeout and
\* workspaceChangeTimeout, cannot clear it; the host keeps running after
\* the plugin is unloaded and the callback keeps firing.
\* ------------------------------------------------------------------------

NextUnload ==
    \/ onunload
    \/ IntervalFires
    \/ handleLayoutChange
    \/ LayoutTimerFires
    \/ HostCreate
    \/ HostDelete
    \/ Tick

SpecUnload == InitLayout /\ [][NextUnload]_vars

\* ------------------------------------------------------------------------
\* Properties
\* ------------------------------------------------------------------------

\* C1: spaceOrder holds no identifier twice and its identifiers are exactly
\* the keys of spaces, in every state reached by any interleaving of
\* createNewSpace, deleteSpace, the sync, deletion detection and
\* handleWorkspaceChange.
OrderMatchesSpaces ==
    NoDuplicates(spaceOrder) /\ ToSet(spaceOrder) = DOMAIN spaces

\* A created space is stored and ordered after the initial space was removed.
OrderMatchesSpacesWitness ==
    /\ loaded
    /\ "space-1" \notin DOMAIN spaces
    /\ \E id \in DOMAIN spaces : spaces[id].icon = "sparkles"

\* C2: after initialization currentSpaceId is a key of spaces.
CurrentSpaceIsKey == loaded => currentSpaceId \in DOMAIN spaces

\* C3: deleteSpace(id) on the only remaining space changes neither spaces,
\* spaceOrder nor currentSpaceId, starts no switch and no deletion, and
\* leaves the host registry alone.
LastSpaceDeleteRejected ==
    [][\A id \in Ids :
          (DOMAIN spaces = {id} /\ deleteSpace(id))
          => UNCHANGED <<spaces, spaceOrder, currentSpaceId, switchVars, deleteVars,
                         workspaces>>]_vars

\* The first operation was a deleteSpace of the initial, only space.
LastSpaceDeleteRejectedWitness ==
    /\ notice = "Cannot delete the last remaining space."
    /\ ops = 1
    /\ DOMAIN spaces = {"space-1"}

\* C4: once a space exists, no step leaves spaces empty.
SpacesNeverEmptied == [][DOMAIN spaces # {} => DOMAIN spaces' # {}]_vars

\* C5: a call of the sync that directly follows a completed call and reads
\* the same host snapshot changes neither spaces nor spaceOrder, and its
\* report lists no import, no creation and no conflict.
SyncIdempotent ==
    [][LET repeated == /\ ~syncInProgress
                       /\ obsidianWorkspaceNames = <<getObsidianWorkspaceNames>>
                       /\ safeBidirectionalSync
           returns == \/ repeated /\ ~syncInProgress'
                      \/ syncRepeat /\ SyncResume /\ ~syncInProgress'
       IN /\ repeated => spaces' = spaces /\ spaceOrder' = spaceOrder
          /\ returns => /\ result'.importedFromObsidian = <<>>
                        /\ result'.createdInObsidian = <<>>
                        /\ result'.conflicts = <<>>]_vars

\* The indices of the conflict entries of a report for one identifier.
ConflictEntries(res, id) ==
    {i \in 1..Len(res.conflicts) : res.conflicts[i].workspaceId = id}

\* C6: for every identifier of both the store and the snapshot whose names
\* differ, a sync that runs stores the host name and reports exactly one conflict
\* entry with the host name, the previous store name and the host name as
\* resolvedName; the rest of the call changes neither.
HostNameWins ==
    [][/\ (SyncGuard /\ safeBidirectionalSync) =>
            LET snap == getObsidianWorkspaceNames
            IN \A id \in DOMAIN spaces \cap DOMAIN snap :
                 spaces[id].name # snap[id] =>
                   /\ spaces'[id].name = snap[id]
                   /\ Cardinality(ConflictEntries(result', id)) = 1
                   /\ \A i \in ConflictEntries(result', id) :
                        result'.conflicts[i] =
                          [workspaceId |-> id, obsidianName |-> snap[id],
                           contextName |-> spaces[id].name, resolvedName |-> snap[id]]
       /\ SyncResume => result'.conflicts = result.conflicts /\ spaces' = spaces]_vars

\* A finished sync has resolved a conflict on the renamed initial space.
HostNameWinsWitness ==
    /\ ~syncInProgress
    /\ ConflictEntries(result, "space-1") # {}
    /\ "space-1" \in DOMAIN spaces
    /\ spaces["space-1"].icon = "home"
    /\ spaces["space-1"].name = "Space"

\* C7: no step of the sync removes a key of spaces or an entry of spaceOrder
\* or changes currentSpaceId, and of a space that existed before the step
\* only the name may change.
SyncPreservesStore ==
    [][(safeBidirectionalSync \/ SyncResume) =>
          /\ DOMAIN spaces \subseteq DOMAIN spaces'
          /\ Len(spaceOrder) <= Len(spaceOrder')
          /\ SubSeq(spaceOrder', 1, Len(spaceOrder)) = spaceOrder
          /\ currentSpaceId' = currentSpaceId
          /\ \A id \in DOMAIN spaces :
               [spaces'[id] EXCEPT !.name = spaces[id].name] = spaces[id]]_vars

\* A finished sync has imported one identifier and created another, absent
\* from its snapshot, in the host.
SyncPreservesStoreWitness ==
    /\ ~syncInProgress
    /\ Len(result.importedFromObsidian) > 0
    /\ Len(result.createdInObsidian) > 0
    /\ Len(spaceOrder) >= 2

\* C8 as stated: when switchToSpace(id) was called again while the switch
\* to id was running, the switch returns after exactly one activation
\* commit and exactly one layout load, with currentSpaceId = id.
SecondCallOneCommitOneLoad ==
    [][(switchPc # "idle" /\ switchPc' = "idle" /\ switchCalls >= 2) =>
          /\ commits = 1
          /\ loads = 1
          /\ currentSpaceId' = switchingToSpaceId]_vars

\* C8 amended: ... exactly one activation commit and at most one layout
\* load: one when the switch returns from its loadWorkspace step, none when
\* it returns from its saveSettings step (saveSettings rejected, or
\* loadSpaceState found no space or no host workspace to load).
SecondCallOneSwitch ==
    [][(switchPc # "idle" /\ switchPc' = "idle" /\ switchCalls >= 2) =>
          /\ commits = 1
          /\ loads = (IF switchPc = "loadWorkspace" THEN 1 ELSE 0)
          /\ currentSpaceId' = switchingToSpaceId]_vars

\* A second call has arrived and the running switch awaits loadWorkspace.
SecondCallOneSwitchWitness ==
    /\ switchCalls >= 2
    /\ switchPc = "loadWorkspace"
    /\ loads = 1
    /\ currentSpaceId = switchingToSpaceId

\* A store identifier seen less than GraceMs ago.
RecentlySeen(id) ==
    /\ LastSeenOf(workspaceLastSeen, id) # 0
    /\ now - LastSeenOf(workspaceLastSeen, id) < GraceMs

\* C9: on both deletion-detection paths an identifier seen less than 5 s ago
\* is removed only when the re-query of the registry misses it too, and an
\* identifier (other than 'default') that the snapshot and the re-query both
\* miss is removed.
GraceWindowRespected ==
    [][(safeDeletionDetection \/ handleWorkspaceChange) =>
          \A id \in DOMAIN spaces :
            /\ (id \notin DOMAIN spaces' /\ RecentlySeen(id)) => ~Requery(id)
            /\ (/\ id # "default"
                /\ ~InSnapshot(getObsidianWorkspaceNames, id)
                /\ ~Requery(id)) => id \notin DOMAIN spaces']_vars

\* C10: no step of automatic deletion detection removes 'default' from
\* spaces or from spaceOrder.
DefaultNeverAutoRemoved ==
    [][(safeDeletionDetection \/ handleWorkspaceChange) =>
          /\ "default" \in DOMAIN spaces => "default" \in DOMAIN spaces'
          /\ Includes(spaceOrder, "default") => Includes(spaceOrder', "default")]_vars

\* C11: whenever a step of deletion detection (safeDeletionDetection or
\* handleWorkspaceChange) removes the current space, currentSpaceId is
\* afterwards the first element of spaceOrder as the removals left it, and
\* the step changes no theme and starts no layout save, layout load or
\* switch.
CurrentReassignedToFirst ==
    [][((safeDeletionDetection \/ handleWorkspaceChange)
          /\ currentSpaceId \in DOMAIN spaces
          /\ currentSpaceId \notin DOMAIN spaces'
          /\ spaceOrder' # <<>>) =>
          /\ currentSpaceId' = spaceOrder'[1]
          /\ UNCHANGED <<switchVars, themeVars, hostVars>>]_vars

\* The spaces that had no host workspace when the sync read the registry:
\* the identifiers the second loop of the sync visited.
NativelyDeleted ==
    IF obsidianWorkspaceNames = <<>> THEN {}
    ELSE {id \in ToSet(result.createdInObsidian)
                 \cup {result.errors[i].workspaceId : i \in 1..Len(result.errors)} :
            id # "default"}

\* C12 as stated: the detection that initializeWorkspaceSync runs after the
\* sync removes every space whose host workspace was missing when the sync
\* started from spaces and from spaceOrder, and a removed current space is
\* replaced by the first remaining one.
StartupRemovesNativelyDeleted ==
    [][StartupDetect =>
          \A b \in NativelyDeleted :
            /\ b \notin DOMAIN spaces'
            /\ ~Includes(spaceOrder', b)
            /\ (currentSpaceId = b /\ spaceOrder' # <<>>) => currentSpaceId' = spaceOrder'[1]]_vars

\* C12 amended: the sync creates a host workspace for every space that has
\* none, so the detection that follows keeps such a space; it removes the
\* space (from spaces and spaceOrder, replacing a removed current space by
\* the first remaining one) exactly when the registry snapshot still misses
\* it: the host creation threw or the Workspaces plugin is disabled.
StartupKeepsRecreated ==
    [][StartupDetect =>
          \A b \in NativelyDeleted :
            IF InSnapshot(getObsidianWorkspaceNames, b)
            THEN /\ b \in DOMAIN spaces'
                 /\ Includes(spaceOrder', b)
                 /\ spaces'[b] = spaces[b]
            ELSE /\ b \notin DOMAIN spaces'
                 /\ ~Includes(spaceOrder', b)
                 /\ (currentSpaceId = b /\ spaceOrder' # <<>>) =>
                       currentSpaceId' = spaceOrder'[1]]_vars

\* The startup sequence has ended with one space re-created in the host and
\* kept, and another one, whose host creation threw, removed.
StartupKeepsRecreatedWitness ==
    /\ ops = 2
    /\ enabled
    /\ \E b \in ToSet(result.createdInObsidian) :
         b # "default" /\ b \in DOMAIN spaces /\ b \in DOMAIN workspaces
    /\ \E i \in 1..Len(result.errors) :
         /\ result.errors[i].workspaceId # "default"
         /\ result.errors[i].workspaceId \notin DOMAIN spaces

\* C13: with currentSpaceId at index i of a spaceOrder of length N >= 1, the
\* commands switchToNextSpace / switchToPreviousSpace and the next / previous
\* buttons of the sidebar pass spaceOrder[(i + 1) mod N], respectively
\* spaceOrder[i - 1] or spaceOrder[N - 1] when i = 0, to switchToSpace.
NavigationWraps ==
    [][LET N == Len(spaceOrder)
           i == IndexOf(spaceOrder, currentSpaceId)
       IN (N >= 1 /\ i >= 0) =>
            /\ (switchToNextSpace \/ handleNextSpace) =>
                  navTarget' = At(spaceOrder, (i + 1) % N)
            /\ (switchToPreviousSpace \/ handlePreviousSpace) =>
                  navTarget' = At(spaceOrder, IF i = 0 THEN N - 1 ELSE i - 1)]_vars

\* The theme step of a switch whose saveSettings resolved runs in this step.
SwitchThemeStepRuns ==
    /\ SwitchSettingsSaved
    /\ Len(switchLog') > Len(switchLog)
    /\ Includes(switchLog', "persist")

\* The target of the running switch defines neither theme nor themeMode.
TargetWithoutTheme ==
    /\ switchingToSpaceId \in DOMAIN spaces
    /\ spaces[switchingToSpaceId].theme = Undefined
    /\ spaces[switchingToSpaceId].themeMode = Undefined

BackupCapturedOnce ==
    [][/\ (originalObsidianTheme = Null /\ originalObsidianTheme' # Null) =>
            (backupThemeState /\ originalObsidianTheme' = hostTheme)
       /\ (originalObsidianThemeMode = Null /\ originalObsidianThemeMode' # Null) =>
            (backupThemeState /\ originalObsidianThemeMode' = hostThemeMode)
       /\ (originalObsidianTheme # Null /\ ~onunload) =>
            originalObsidianTheme' = originalObsidianTheme
       /\ (originalObsidianThemeMode # Null /\ ~onunload) =>
            originalObsidianThemeMode' = originalObsidianThemeMode
       /\ onunload =>
            (originalObsidianTheme' = Null /\ originalObsidianThemeMode' = Null)]_vars

\* C16: a switch that has passed the guard returns to Idle
\* (switchingToSpaceId = null), whether its save, its saveSettings, its
\* theme calls and its layout load succeed or throw.
SwitchReachesIdle == (switchingToSpaceId # Null) ~> (switchingToSpaceId = Null)

\* A switch whose theme call threw has gone on to load the layout and has
\* returned to Idle.
SwitchReachesIdleWitness ==
    /\ switchingToSpaceId = Null
    /\ switchPc = "idle"
    /\ themeError
    /\ Includes(switchLog, "load")
    /\ Includes(switchLog, "idle")

\* Position of an effect of a switch in the order of main.ts 209-267.
EffectRank(e) ==
    CASE e = "save" -> 1
      [] e = "commit" -> 2
      [] e = "persist" -> 3
      [] e = "theme" -> 4
      [] e = "load" -> 5
      [] e = "notify" -> 6
      [] e = "idle" -> 7

OverlappingCallsRejected ==
    [][/\ (syncInProgress /\ safeBidirectionalSync) =>
            /\ syncReturn' = Null
            /\ UNCHANGED <<storeVars, hostVars, syncInProgress, syncCur, syncTodo, result,
                           obsidianWorkspaceNames>>
       /\ (~syncInProgress /\ safeBidirectionalSync) =>
            /\ obsidianWorkspaceNames' = <<getObsidianWorkspaceNames>>
            /\ ~syncInProgress' => syncReturn' = "result"
       /\ syncInProgress' = (syncCur' # Null)
       /\ ~deletionDetectionInProgress'
       /\ safeDeletionDetection => ~deletionDetectionInProgress]_vars

\* A call was turned away while a sync awaited saveData.
OverlappingCallsRejectedWitness ==
    /\ syncInProgress
    /\ syncCur # Null
    /\ syncReturn = Null

\* C19: while a sync is suspended at saveData, or a switch at saveSettings
\* or loadWorkspace, no step other than the continuation of that operation
\* changes the store.
StoreNeverMutatedConcurrently ==
    [][/\ (syncInProgress /\ ~SyncResume) => UNCHANGED storeVars
       /\ (switchPc # "idle" /\ ~SwitchSettingsSaved /\ ~SwitchWorkspaceLoaded) =>
            UNCHANGED storeVars]_vars

\* Number of occurrences of x in the sequence s.
Occurrences(s, x) == Cardinality({k \in 1..Len(s) : s[k] = x})

\* C20: a sync that runs creates, for every identifier of the registry
\* snapshot that is no key of spaces, a space named like the host workspace,
\* with the default icon, autoSave = false and nothing else set; the
\* identifier occurs once in spaceOrder, behind all identifiers that were
\* there before, and once in importedFromObsidian.
ImportCreatesSpace ==
    [][(~syncInProgress /\ safeBidirectionalSync) =>
          LET snap == getObsidianWorkspaceNames
          IN /\ SubSeq(spaceOrder', 1, Len(spaceOrder)) = spaceOrder
             /\ \A id \in DOMAIN snap \ DOMAIN spaces :
                  /\ id \in DOMAIN spaces'
                  /\ spaces'[id] = [name |-> snap[id], icon |-> "page", autoSave |-> FALSE,
                                    theme |-> Undefined, themeMode |-> Undefined,
                                    description |-> Undefined]
                  /\ Occurrences(spaceOrder', id) = 1
                  /\ \E k \in (Len(spaceOrder) + 1)..Len(spaceOrder') : spaceOrder'[k] = id
                  /\ Occurrences(result'.importedFromObsidian, id) = 1]_vars

\* A sync has imported two host workspaces behind the space of the store.
ImportCreatesSpaceWitness ==
    /\ Len(result.importedFromObsidian) = 2
    /\ Len(spaceOrder) = 3
    /\ SubSeq(spaceOrder, 2, 3) = result.importedFromObsidian
    /\ \A k \in 2..3 :
         /\ spaceOrder[k] \in DOMAIN workspaces
         /\ spaces[spaceOrder[k]].name = workspaces[spaceOrder[k]]
         /\ ~spaces[spaceOrder[k]].autoSave

\* Number of entries of `errors` recorded for the identifier id.
ErrorsFor(res, id) ==
    Cardinality({k \in 1..Len(res.errors) : res.errors[k].workspaceId = id})

\* C21: a sync visits every space that is missing from the registry
\* snapshot; a creation that fails is recorded once in errors with its
\* identifier and a message, the loop goes on with the identifiers that are
\* left, the space and its place in spaceOrder stay as they were, and the call
\* returns the report.
CreateFailuresRecorded ==
    [][((SyncGuard /\ safeBidirectionalSync) \/ SyncResume) =>
          LET snap == obsidianWorkspaceNames'[1]
              missing == {id \in DOMAIN spaces' : ~InSnapshot(snap, id)}
          IN /\ SubSeq(spaceOrder', 1, Len(spaceOrder)) = spaceOrder
             /\ \A id \in DOMAIN spaces :
                  ~InSnapshot(snap, id) => id \in DOMAIN spaces' /\ spaces'[id] = spaces[id]
             /\ \A k \in 1..Len(result'.errors) :
                  /\ result'.errors[k].workspaceId \in missing
                  /\ result'.errors[k].error # ""
             /\ \A id \in missing :
                  Occurrences(result'.createdInObsidian, id) + ErrorsFor(result', id)
                    = IF id = syncCur' \/ Includes(syncTodo', id) THEN 0 ELSE 1
             /\ ~syncInProgress' => syncReturn' = "result"]_vars

\* A sync has returned a report with one creation that failed and one that
\* went through, the failed one's space still in the store.
CreateFailuresRecordedWitness ==
    /\ ~syncInProgress
    /\ enabled
    /\ syncReturn = "result"
    /\ Len(result.errors) = 1
    /\ Len(result.createdInObsidian) = 1
    /\ result.errors[1].workspaceId \in DOMAIN spaces
    /\ Includes(spaceOrder, result.errors[1].workspaceId)

\* C22: a read of the registry that throws yields the empty mapping, and
\* the sync that made the read imports nothing, resolves nothing, keeps every
\* space and returns a report that has an errors field.
ReadFailureContained ==
    [][(enabled /\ RegistryReadThrows /\ SyncGuard /\ safeBidirectionalSync) =>
          /\ getObsidianWorkspaceNames = EmptyMap
          /\ obsidianWorkspaceNames' = <<EmptyMap>>
          /\ result'.importedFromObsidian = <<>>
          /\ result'.conflicts = <<>>
          /\ "errors" \in DOMAIN result'
          /\ spaces' = spaces
          /\ spaceOrder' = spaceOrder
          /\ syncReturn' \in {syncReturn, "result"}
          /\ ~syncInProgress' => syncReturn' = "result"]_vars

\* A sync has returned its report although the registry, which holds a
\* readable entry beside the unreadable one, could not be read.
ReadFailureContainedWitness ==
    /\ enabled
    /\ RegistryReadThrows
    /\ \E id \in DOMAIN workspaces : workspaces[id] # Null /\ id \notin DOMAIN spaces
    /\ obsidianWorkspaceNames = <<EmptyMap>>
    /\ ~syncInProgress
    /\ syncReturn = "result"
    /\ result.errors # <<>>

\* C23: once the load monitor has seen a native load of a workspace that
\* has a space and is not the current one, that space becomes the current
\* one, whether or not a switch is running at that time.
LoadedSpaceBecomesActive ==
    \A workspaceId \in Ids :
        (workspaceId \in autoSwitchTimers) ~> (currentSpaceId = workspaceId)

\* A switch begins: switchToSpace passes its guard.
SwitchBegins == switchingToSpaceId = Null /\ switchingToSpaceId' # Null

\* C24: no layout is saved under the identifier of a space whose autoSave is
\* false: a switch that begins saves the outgoing layout only for an outgoing
\* space with autoSave, and the layout timer and onunload save only under a
\* current space with autoSave.
SnapshotNeverSaved ==
    [][/\ (SwitchBegins /\ switchLog'[1] = "save") =>
            (currentSpaceId \in DOMAIN spaces /\ spaces[currentSpaceId].autoSave)
       /\ ((LayoutTimerFires \/ onunload) /\ savedId' # Null) =>
            /\ savedId' = currentSpaceId
            /\ savedId' \in DOMAIN spaces
            /\ spaces[savedId'].autoSave]_vars

\* A layout change had set the timer for the current space; the space then
\* lost autoSave, and neither the timer nor the unloading of the plugin saved
\* its layout although the Workspaces plugin is enabled.
SnapshotNeverSavedWitness ==
    /\ ~loaded
    /\ burst > 0
    /\ layoutTimers = 0
    /\ enabled
    /\ currentSpaceId \in DOMAIN spaces
    /\ ~spaces[currentSpaceId].autoSave
    /\ savedId = Null

\* C25 as stated: every layout-change notification outside a switch leaves
\* exactly one pending save, a notification during a switch schedules none,
\* and the pending save is issued when the timer fires.
BurstSavesOnce ==
    [][/\ handleLayoutChange =>
            layoutTimers' = (IF switchingToSpaceId # Null THEN layoutTimers ELSE 1)
       /\ LayoutTimerFires => savedId' = currentSpaceId]_vars

\* C25: at most one save is pending however many notifications arrive; a
\* notification sets the timer only when no switch is running and the current
\* space has autoSave, and otherwise schedules nothing; the timer, when it
\* fires, saves once under the space that is current then, provided that space
\* has autoSave and the Workspaces plugin is enabled, and saves nothing
\* otherwise.
LayoutBurstCoalesced ==
    [][/\ layoutTimers' <= 1
       /\ handleLayoutChange =>
            layoutTimers' = (IF /\ switchingToSpaceId = Null
                                /\ currentSpaceId \in DOMAIN spaces
                                /\ spaces[currentSpaceId].autoSave
                             THEN 1 ELSE layoutTimers)
       /\ (handleLayoutChange /\ switchingToSpaceId # Null) =>
            UNCHANGED <<layoutTimers, savedId>>
       /\ LayoutTimerFires =>
            /\ layoutTimers' = 0
            /\ savedId' = (IF /\ currentSpaceId \in DOMAIN spaces
                              /\ spaces[currentSpaceId].autoSave
                              /\ enabled
                           THEN currentSpaceId ELSE Null)]_vars

\* Two notifications reset the same timer, and the timer has fired and
\* saved the layout of the current space.
LayoutBurstCoalescedWitness ==
    /\ loaded
    /\ burst >= 2
    /\ layoutTimers = 0
    /\ savedId = currentSpaceId

\* The snapshot of the registry and the store differ: an identifier is on one
\* side only, or a shared identifier has two names.
SnapshotDiffers ==
    LET snap == getObsidianWorkspaceNames
    IN \/ DOMAIN snap # DOMAIN spaces
       \/ \E id \in DOMAIN snap \cap DOMAIN spaces : spaces[id].name # snap[id]

\* The report names an import, a creation or a conflict.
SyncReports(res) ==
    \/ res.importedFromObsidian # <<>>
    \/ res.createdInObsidian # <<>>
    \/ res.conflicts # <<>>

\* C26 as stated: needsSync is true exactly when store and registry differ,
\* and exactly when a sync of the same state reports an import, a creation or
\* a conflict.
NeedsSyncIffSyncReports ==
    [][/\ needsSync <=> SnapshotDiffers
       /\ needsSync' <=> SnapshotDiffers'
       /\ (SyncGuard /\ safeBidirectionalSync /\ ~syncInProgress') =>
            (needsSync <=> SyncReports(result'))]_vars

\* C26: needsSync is true exactly when the store and the registry as read
\* by getObsidianWorkspaceNames differ, and exactly when a sync of the same
\* state imports, resolves a conflict or attempts a creation, the attempt
\* ending in createdInObsidian or in errors.
NeedsSyncIffSyncActs ==
    [][/\ needsSync <=> SnapshotDiffers
       /\ needsSync' <=> SnapshotDiffers'
       /\ (SyncGuard /\ safeBidirectionalSync) =>
            IF syncInProgress'
            THEN needsSync
            ELSE needsSync <=> (SyncReports(result') \/ result'.errors # <<>>)]_vars

\* A sync has returned a report with a failed creation and nothing else,
\* and the pre-check still asks for a sync.
NeedsSyncIffSyncActsWitness ==
    /\ ~syncInProgress
    /\ syncReturn = "result"
    /\ result.errors # <<>>
    /\ ~SyncReports(result)
    /\ needsSync

\* C27: with the registry left alone, the periodic passes bring the store to
\* the host: once the passes the bound allows have run, store and registry
\* hold the same identifiers under the same names, and neither pre-check asks
\* for another pass.
PeriodicSyncConverges ==
    (ops = MaxOps) =>
        /\ ~needsSync
        /\ ~needsDeletionDetection
        /\ DOMAIN spaces = DOMAIN workspaces
        /\ \A id \in DOMAIN spaces : spaces[id].name = workspaces[id]

\* The identifier with the least counter that is free: the base itself, or
\* base-k for the least k >= 1 with base-k no key of the map.
LeastFreeId(base, existing) ==
    IF base \notin DOMAIN existing THEN base
    ELSE LET Candidate(k) == base \o "-" \o ToString(k)
             k == CHOOSE j \in 1..(Cardinality(DOMAIN existing) + 1) :
                    /\ Candidate(j) \notin DOMAIN existing
                    /\ \A i \in 1..(j - 1) : Candidate(i) \in DOMAIN existing
         IN Candidate(k)

\* C28: for every name and every store, generateSpaceId returns an
\* identifier that is no key of the store, so that storing the new space
\* keeps every space there was; for an empty or blank name it returns 'space',
\* 'space-1', 'space-2', ..., the first of them that is free.
GeneratedIdIsFree ==
    [][\A name \in GenNames :
         /\ generateSpaceId(name, spaces) \notin DOMAIN spaces
         /\ IsBlank(name) => generateSpaceId(name, spaces) = LeastFreeId("space", spaces)
         /\ GenerateAndStore(name) =>
              /\ createId' \notin DOMAIN spaces
              /\ DOMAIN spaces' = DOMAIN spaces \cup {createId'}
              /\ \A id \in DOMAIN spaces : spaces'[id] = spaces[id]
              /\ Len(spaceOrder') = Len(spaceOrder) + 1]_vars

\* Three spaces were made from the empty name, one after the other: 'space',
\* 'space-1' and 'space-2'.
GeneratedIdIsFreeWitness ==
    /\ ops = 3
    /\ createName = ""
    /\ createId = "space-2"
    /\ Len(spaceOrder) = 4
    /\ SubSeq(spaceOrder, 2, 4) = <<"space", "space-1", "space-2">>

TargetWithTheme ==
    /\ switchingToSpaceId \in DOMAIN spaces
    /\ \/ Truthy(spaces[switchingToSpaceId].theme)
       \/ Truthy(spaces[switchingToSpaceId].themeMode)

\* The theme step of a switch runs and applySpaceTheme throws in it.
ThemeApplyFails == SwitchThemeStepRuns /\ TargetWithTheme /\ themeError'

\* The rest of the switch after its theme step: the target stays current and
\* its layout is loaded when the host has a workspace for it.
SwitchGoesOnToLoad ==
    /\ currentSpaceId' = switchingToSpaceId
    /\ (enabled /\ Requery(switchingToSpaceId)) =>
          /\ switchPc' = "loadWorkspace"
          /\ loads' = loads + 1

SwitchPersistFails == SwitchSettingsSaved /\ ~Includes(switchLog', "persist")

\* The loadWorkspace call of the running switch throws in this step.
SwitchLoadFails == SwitchWorkspaceLoaded /\ loadError'

\* The step ends with the restoration of the catch block and the return.
CatchRestoresAndReturns ==
    /\ Len(switchLog') >= 2
    /\ switchLog'[Len(switchLog') - 1] = "theme"
    /\ switchLog'[Len(switchLog')] = "idle"
    /\ themeRestore' # "none"
    /\ switchingToSpaceId' = Null
    /\ switchPc' = "idle"

RemovalClearsLastSeen ==
    [][(safeDeletionDetection \/ handleWorkspaceChange) =>
          \A id \in DOMAIN spaces \ DOMAIN spaces' :
             /\ ~Includes(spaceOrder', id)
             /\ id \notin DOMAIN workspaceLastSeen']_vars

\* C33: when deleteSpace(id) returns after having removed id, id is in
\* neither spaces nor spaceOrder and is not the current space, also when a
\* switch was running at the moment deleteSpace was called.
DeletedSpaceNotCurrent ==
    [][DeleteSettingsSaved =>
          /\ deleteId \notin DOMAIN spaces'
          /\ ~Includes(spaceOrder', deleteId)
          /\ currentSpaceId' # deleteId]_vars

TimerNeverSavesUnderTarget ==
    [][(LayoutTimerFires /\ switchingToSpaceId # Null) =>
          savedId' # switchingToSpaceId]_vars

\* C36: every change that the sync and the deletion detection of startup
\* make to spaces, spaceOrder or currentSpaceId is followed by a
\* saveSettings: once initializeWorkspaceSync has run both and nothing is
\* pending, the persisted settings document equals the store.
StartupChangesPersisted ==
    (ops = 2 /\ ~syncInProgress) =>
       persisted = Persist(spaces, spaceOrder, currentSpaceId)

\* createNewSpace reaches its switchToSpace(spaceId) and the switch starts.
CreateCompletes ==
    /\ CreateSettingsSaved \/ CreateWorkspaceSaved
    /\ createPc' = "idle"
    /\ switchingToSpaceId = Null
    /\ switchingToSpaceId' = createId

\* C37: when createNewSpace completes, the new identifier is in spaces and
\* spaceOrder with the configuration createNewSpace stored and is the
\* current space, whatever handleWorkspaceChange pass ran between the
\* storing of the space and the creation of its host workspace.
CreatedSpaceSurvives ==
    [][CreateCompletes =>
          /\ createId \in DOMAIN spaces'
          /\ Includes(spaceOrder', createId)
          /\ spaces'[createId] = CreatedSpace(createName)
          /\ currentSpaceId' = createId]_vars

\* C38: when deleteSpace ends, the identifier it removed is not in the
\* store, and it is not in the host registry when the Workspaces plugin is
\* enabled and the host workspace was deleted: no handleWorkspaceChange pass
\* that ran while deleteSpace awaited saveSettings has imported it again.
DeletedSpaceStaysDeleted ==
    [][(DeleteSettingsSaved /\ deleteId \notin DOMAIN workspaces') =>
          /\ deleteId \notin DOMAIN spaces'
          /\ ~Includes(spaceOrder', deleteId)]_vars

\* C39: when backupThemeState captures the original theme, no switch has
\* changed the host's theme or mode before it, so the captured value is the
\* host's own theme; this holds also for a switch started from a command or
\* the sidebar while onload has not yet reached backupThemeState.
BackupPrecedesSpaceTheme ==
    [][(backupThemeState /\ originalObsidianTheme = Null) => ~themeChanged]_vars

\* C40: once onunload has completed, no step of the plugin changes the
\* store or the settings document, and none changes the host registry or
\* the host's theme and mode: the timers it started are cancelled or do
\* nothing when they fire.
NothingRunsAfterUnload ==
    [][~loaded => UNCHANGED <<storeVars, persisted, workspaces, hostTheme, hostThemeMode>>]_vars

====
